---- MODULE Spec2Model ----
(***************************************************************************)
(* Model of the request-rule runner of rulesets-base (runRequestRules and  *)
(* its helpers) and of the assertion collector it drives.                  *)
(*                                                                         *)
(* One evaluation is a pure function of the rules, the operation fact and  *)
(* the request fact: Init draws those inputs from bounded sets and the     *)
(* single action RunRequestRules applies the function, leaving the         *)
(* flattened rules, the Result list and a parallel trace that records, for *)
(* each Result, where it was pushed and which predicate invocation made it.*)
(***************************************************************************)
EXTENDS Integers, Sequences, FiniteSets, TLC

VARIABLES rules, operation, request, pc, requestRules, results, trace,
          calls, visits, earlier, example, exception, generator,
          command

vars ==
  <<rules, operation, request, pc, requestRules, results, trace,
    calls, visits, earlier, example, exception, generator, command>>

\* JavaScript null / undefined
Null == "null"

\* ------------------------------------------------------------------------
\* Bounds of the model
\* ------------------------------------------------------------------------
\* longest list of rules and rulesets handed to the runner
MaxRules == 2
\* most entities (bodies plus properties) of one request fact
MaxEntities == 3
\* most evaluations asked of one RuleRunner
MaxRuns == 2
\* most properties of the body schema of an example of a check
MaxProperties == 3
\* most rulesets named in a configuration
MaxNames == 3
\* most diffs and most undocumented paths of one verification
MaxDiffs == 2

\* ------------------------------------------------------------------------
\* Sequence helpers
\* ------------------------------------------------------------------------
RECURSIVE Flatten(_)
Flatten(ss) ==
  IF ss = <<>> THEN <<>> ELSE Head(ss) \o Flatten(Tail(ss))

RECURSIVE SeqSum(_)
SeqSum(s) == IF s = <<>> THEN 0 ELSE Head(s) + SeqSum(Tail(s))

\* all sequences without repetition over S of length at most n
SeqUpTo(S, n) ==
  UNION {{s \in [1..k -> S] : \A i, j \in 1..k : s[i] = s[j] => i = j} : k \in 0..n}

\* ------------------------------------------------------------------------
\* Facts: the operation node and the request node with its bodies
\* ------------------------------------------------------------------------
ContentTypes == <<"application/json", "application/xml">>
Keys == <<"hello", "world">>

\* the change of a node with the given before and after values
classify(before, after) ==
  IF before = Null THEN "added"
  ELSE IF after = Null THEN "removed"
  ELSE IF before # after THEN "changed"
  ELSE Null

\* the (before, after) schema types of a request body: added, removed,
\* unchanged and changed
BodySides ==
  {<<Null, "string">>, <<"array", Null>>,
   <<"string", "string">>, <<"string", "array">>}

\* the (before, after) schema types of a property
FieldSides ==
  {<<Null, "string">>, <<"string", Null>>,
   <<"string", "string">>, <<"string", "number">>}

\* the pairs of S an entity can have inside a parent that is present before
\* (hasBefore) and after (hasAfter)
Sides(S, hasBefore, hasAfter) ==
  {p \in S : (p[1] # Null => hasBefore) /\ (p[2] # Null => hasAfter)}

FieldNode(key, p) ==
  [key |-> key, before |-> p[1], after |-> p[2], change |-> classify(p[1], p[2])]

BodyNode(contentType, p, fields) ==
  [contentType |-> contentType, before |-> p[1], after |-> p[2],
   change |-> classify(p[1], p[2]), fields |-> fields]

\* choices of one option or none per position, kept in the order of positions
RECURSIVE Picks(_)
Picks(options) ==
  IF options = <<>> THEN {<<>>}
  ELSE LET rest == Picks(Tail(options))
       IN  rest \cup {<<o>> \o r : o \in Head(options), r \in rest}

\* choices of one option per position for the first positions
RECURSIVE Prefixes(_)
Prefixes(options) ==
  IF options = <<>> THEN {<<>>}
  ELSE {<<>>} \cup {<<o>> \o r : o \in Head(options), r \in Prefixes(Tail(options))}

FieldLists(p) ==
  Prefixes([i \in 1..Len(Keys) |->
              {FieldNode(Keys[i], q) : q \in Sides(FieldSides, p[1] # Null, p[2] # Null)}])

BodyOptions(contentType, hasBefore, hasAfter) ==
  UNION {{BodyNode(contentType, p, fields) :
            fields \in {f \in FieldLists(p) : 1 + Len(f) <= MaxEntities}} :
           p \in Sides(BodySides, hasBefore, hasAfter)}

Entities(bodies) == SeqSum([i \in 1..Len(bodies) |-> 1 + Len(bodies[i].fields)])

BodyLists(hasBefore, hasAfter) ==
  {b \in Picks([i \in 1..Len(ContentTypes) |->
                  BodyOptions(ContentTypes[i], hasBefore, hasAfter)]) :
     Entities(b) <= MaxEntities}

OperationNode(hasBefore, hasAfter) ==
  [method |-> "get", path |-> "/api/users",
   before |-> hasBefore, after |-> hasAfter,
   change |-> classify(IF hasBefore THEN "operation" ELSE Null,
                       IF hasAfter THEN "operation" ELSE Null)]

Presences == {<<TRUE, TRUE>>, <<TRUE, FALSE>>, <<FALSE, TRUE>>}

Inputs ==
  UNION {{[operation |-> OperationNode(h[1], h[2]), request |-> [bodies |-> b]] :
            b \in BodyLists(h[1], h[2])} : h \in Presences}

\* ------------------------------------------------------------------------
\* JavaScript helpers
\* ------------------------------------------------------------------------
\* a || b: b when a is undefined, null or the empty string
Or(a, b) == IF a = Null \/ a = "" THEN b ELSE a

toUpperCase(str) ==
  CASE str = "get" -> "GET"
    [] str = "post" -> "POST"
    [] OTHER -> str

\* Map.get on an insertion-ordered map kept as a sequence of nodes
HasBody(bodies, contentType) ==
  \E i \in 1..Len(bodies) : bodies[i].contentType = contentType

GetBody(bodies, contentType) ==
  bodies[CHOOSE i \in 1..Len(bodies) : bodies[i].contentType = contentType]

HasField(fields, key) == \E i \in 1..Len(fields) : fields[i].key = key

GetField(fields, key) == fields[CHOOSE i \in 1..Len(fields) : fields[i].key = key]

\* Map.keys
BodyKeys(bodies) == [i \in 1..Len(bodies) |-> bodies[i].contentType]

\* ------------------------------------------------------------------------
\* Data constructors: the instances the rules see
\* ------------------------------------------------------------------------
NullOperation == [method |-> Null, path |-> Null]

createOperation(endpoint, side) ==
  IF endpoint[side] THEN [method |-> endpoint.method, path |-> endpoint.path]
  ELSE NullOperation

NullRequest == [contentType |-> Null, value |-> Null, properties |-> <<>>]

Field(key, value) == [key |-> key, value |-> value, jsonSchemaTrail |-> key]

NullField == Field(Null, Null)

\* the body of one content type on one side, with the properties it has there
createRequest(requestNode, contentType, side) ==
  IF ~HasBody(requestNode.bodies, contentType) THEN NullRequest
  ELSE LET node == GetBody(requestNode.bodies, contentType)
           present == SelectSeq(node.fields, LAMBDA f : f[side] # Null)
       IN  IF node[side] = Null THEN NullRequest
           ELSE [contentType |-> contentType, value |-> node[side],
                 properties |-> [i \in 1..Len(present) |->
                                   Field(present[i].key, present[i][side])]]

\* GetProperty that reads the first property, whatever its key
GetProperty_byPosition(requestBody, key) ==
  IF requestBody.properties = <<>> THEN NullField
  ELSE requestBody.properties[1]

\* Map.get on the properties of a body instance
GetProperty(requestBody, key) ==
  IF \E i \in 1..Len(requestBody.properties) : requestBody.properties[i].key = key
  THEN requestBody.properties[
         CHOOSE i \in 1..Len(requestBody.properties) :
           requestBody.properties[i].key = key]
  ELSE NullField

createBeforeOperationContext(op, custom) ==
  [operation |-> [method |-> op.method, path |-> op.path, change |-> Null],
   custom |-> custom]

createAfterOperationContext(op, custom, changeType) ==
  [operation |-> [method |-> op.method, path |-> op.path, change |-> changeType],
   custom |-> custom]

\* ------------------------------------------------------------------------
\* Rules and rulesets
\* ------------------------------------------------------------------------
RequestRule(name, docsLink, matches, rule) ==
  [type |-> "RequestRule", name |-> name, docsLink |-> docsLink,
   matches |-> matches, rule |-> rule, rules |-> <<>>]

OperationRule(name, docsLink, matches, rule) ==
  [type |-> "OperationRule", name |-> name, docsLink |-> docsLink,
   matches |-> matches, rule |-> rule, rules |-> <<>>]

Ruleset(name, docsLink, matches, members) ==
  [type |-> "Ruleset", name |-> name, docsLink |-> docsLink,
   matches |-> matches, rule |-> Null, rules |-> members]

\* a rule declared with the tier should; a rule that declares none is must
Should(rule) ==
  [f \in DOMAIN rule \cup {"tier"} |-> IF f = "tier" THEN "should" ELSE rule[f]]

TierOf(rule) == IF "tier" \in DOMAIN rule THEN rule.tier ELSE "must"

\* a user matcher applied to a request body instance and a context
callMatcher(matcher, requestBody, context) ==
  CASE matcher = "isJson" -> requestBody.contentType = "application/json"
    [] matcher = "isXml" -> requestBody.contentType = "application/xml"
    [] OTHER -> TRUE

\* the matches member of a flattened rule: the rule's own function (or
\* undefined) or the function made by createRulesetMatcher
OwnMatcher(matcher) ==
  [combined |-> FALSE, ruleMatcher |-> matcher, rulesetMatcher |-> Null]

createRulesetMatcher(ruleMatcher, rulesetMatcher) ==
  [combined |-> TRUE, ruleMatcher |-> ruleMatcher, rulesetMatcher |-> rulesetMatcher]

IsUndefined(matches) == ~matches.combined /\ matches.ruleMatcher = Null

\* calling the matches member of a flattened rule
callMatches(matches, requestBody, context) ==
  IF matches.combined
  THEN /\ matches.ruleMatcher = Null
          \/ callMatcher(matches.ruleMatcher, requestBody, context)
       /\ matches.rulesetMatcher = Null
          \/ callMatcher(matches.rulesetMatcher, requestBody, context)
  ELSE callMatcher(matches.ruleMatcher, requestBody, context)

getRuleAliases(rulesetName, ruleName) == <<rulesetName \o " > " \o ruleName>>

\* getRequestRulesOf that leaves the matcher of the ruleset out
getRequestRulesOf_ownMatcher(ruleOrRuleset) ==
  (IF ruleOrRuleset.type = "RequestRule"
   THEN <<[name |-> ruleOrRuleset.name, docsLink |-> ruleOrRuleset.docsLink,
           matches |-> OwnMatcher(ruleOrRuleset.matches),
           rule |-> ruleOrRuleset.rule, aliases |-> <<>>]>>
   ELSE <<>>)
  \o
  (IF ruleOrRuleset.type = "Ruleset"
   THEN LET members == SelectSeq(ruleOrRuleset.rules,
                                 LAMBDA r : r.type = "RequestRule")
        IN  [i \in 1..Len(members) |->
               [name |-> members[i].name,
                docsLink |-> Or(members[i].docsLink, ruleOrRuleset.docsLink),
                matches |-> OwnMatcher(members[i].matches),
                rule |-> members[i].rule,
                aliases |-> getRuleAliases(ruleOrRuleset.name, members[i].name)]]
   ELSE <<>>)

\* getRequestRulesOf that leaves the docs link of the ruleset out
getRequestRulesOf_ownDocsLink(ruleOrRuleset) ==
  (IF ruleOrRuleset.type = "RequestRule"
   THEN <<[name |-> ruleOrRuleset.name, docsLink |-> ruleOrRuleset.docsLink,
           matches |-> OwnMatcher(ruleOrRuleset.matches),
           rule |-> ruleOrRuleset.rule, aliases |-> <<>>]>>
   ELSE <<>>)
  \o
  (IF ruleOrRuleset.type = "Ruleset"
   THEN LET members == SelectSeq(ruleOrRuleset.rules,
                                 LAMBDA r : r.type = "RequestRule")
        IN  [i \in 1..Len(members) |->
               [name |-> members[i].name,
                docsLink |-> members[i].docsLink,
                matches |-> createRulesetMatcher(members[i].matches,
                                                 ruleOrRuleset.matches),
                rule |-> members[i].rule,
                aliases |-> getRuleAliases(ruleOrRuleset.name, members[i].name)]]
   ELSE <<>>)

\* one rule or ruleset of the list, flattened
getRequestRulesOf(ruleOrRuleset) ==
  (IF ruleOrRuleset.type = "RequestRule"
   THEN <<[name |-> ruleOrRuleset.name, docsLink |-> ruleOrRuleset.docsLink,
           matches |-> OwnMatcher(ruleOrRuleset.matches),
           rule |-> ruleOrRuleset.rule, aliases |-> <<>>]>>
   ELSE <<>>)
  \o
  (IF ruleOrRuleset.type = "Ruleset"
   THEN LET members == SelectSeq(ruleOrRuleset.rules,
                                 LAMBDA r : r.type = "RequestRule")
        IN  [i \in 1..Len(members) |->
               [name |-> members[i].name,
                docsLink |-> Or(members[i].docsLink, ruleOrRuleset.docsLink),
                matches |-> createRulesetMatcher(members[i].matches,
                                                 ruleOrRuleset.matches),
                rule |-> members[i].rule,
                aliases |-> getRuleAliases(ruleOrRuleset.name, members[i].name)]]
   ELSE <<>>)

\* getRequestRules that collects the standalone rules first and the rules of
\* the rulesets after them
getRequestRules_rulesetsLast(ruleList) ==
  Flatten([i \in 1..Len(ruleList) |->
             IF ruleList[i].type = "Ruleset" THEN <<>>
             ELSE getRequestRulesOf(ruleList[i])])
  \o Flatten([i \in 1..Len(ruleList) |->
                IF ruleList[i].type = "Ruleset"
                THEN getRequestRulesOf(ruleList[i]) ELSE <<>>])

getRequestRules(ruleList) ==
  Flatten([i \in 1..Len(ruleList) |-> getRequestRulesOf(ruleList[i])])

\* ------------------------------------------------------------------------
\* Assertion collector and lifecycle executor
\* ------------------------------------------------------------------------
Reg(kind, condition, predicate) ==
  [kind |-> kind, condition |-> condition, predicate |-> predicate]

\* the collector a rule body leaves behind: the registrations on
\* requestAssertions.body and on requestAssertions.property, each in the
\* order registered
RuleBodies == {"all", "twice", "byContext"}

callRule(rule, context) ==
  CASE rule = "all" ->
         [body |-> <<Reg("requirement", "body must be described", "ok"),
                     Reg("added", "added body must not be an array", "notArray"),
                     Reg("changed", "must not change root body shape", "sameType"),
                     Reg("removed", "cannot remove bodies with array schema", "notArray")>>,
          property |-> <<Reg("requirement", "property must be described", "ok"),
                         Reg("added", "added property is fine", "ok"),
                         Reg("changed", "must not change property type", "sameType"),
                         Reg("removed", "must not remove property", "throws")>>]
    [] rule = "twice" ->
         [body |-> <<Reg("requirement", "first requirement", "throws"),
                     Reg("removed", "first removed", "crashes"),
                     Reg("requirement", "second requirement", "ok"),
                     Reg("changed", "first changed", "throws"),
                     Reg("added", "first added", "throws"),
                     Reg("removed", "second removed", "ok"),
                     Reg("added", "second added", "ok"),
                     Reg("changed", "second changed", "ok")>>,
          property |-> <<Reg("removed", "first removed", "throws"),
                         Reg("removed", "second removed", "ok"),
                         Reg("added", "first added", "crashes"),
                         Reg("requirement", "first requirement", "throws"),
                         Reg("changed", "first changed", "throws"),
                         Reg("changed", "second changed", "ok"),
                         Reg("added", "second added", "ok"),
                         Reg("requirement", "second requirement", "ok")>>]
    [] rule = "byContext" ->
         IF context.operation.change = "added"
         THEN [body |-> <<Reg("requirement", "new operations need a body type", "throws")>>,
               property |-> <<Reg("added", "new operations may add properties", "ok")>>]
         ELSE [body |-> <<Reg("removed", "bodies may be removed", "ok"),
                          Reg("changed", "bodies must not change", "throws")>>,
               property |-> <<Reg("requirement", "property must be described", "ok")>>]
    [] rule = "requestType" ->
         [body |-> <<Reg("requirement", "must contain a type", "hasType")>>,
          property |-> <<>>]
    [] rule = "requestRemoval" ->
         [body |-> <<Reg("removed", "cannot remove bodies with array schema",
                         "notArray")>>,
          property |-> <<>>]
    [] rule = "propertyType" ->
         [body |-> <<>>,
          property |-> <<Reg("changed", "must not change property type",
                             "sameFlatType")>>]
    [] OTHER -> [body |-> <<>>, property |-> <<>>]

\* value.flatSchema.type of an instance whose schema is kept as one string:
\* "any" is the schema {}, "string:uuid" the type string with format uuid
flatSchemaType(schema) ==
  CASE schema = "any" -> Null
    [] schema = "string:uuid" -> "string"
    [] schema = "string:date" -> "string"
    [] OTHER -> schema

\* one predicate invocation, wrapped: a throw becomes passed = FALSE with the
\* thrown message
invoke(predicate, args) ==
  CASE predicate = "throws" ->
         [passed |-> FALSE, error |-> "rule error"]
    [] predicate = "crashes" ->
         [passed |-> FALSE, error |-> "TypeError"]
    [] predicate = "notArray" /\ args[1].value = "array" ->
         [passed |-> FALSE, error |-> "cannot be an array"]
    [] predicate = "sameType" /\ args[1].value # args[Len(args)].value ->
         [passed |-> FALSE, error |-> "must not change type"]
    [] predicate = "hasType" /\ flatSchemaType(args[1].value) = Null ->
         [passed |-> FALSE, error |-> "request body does not have type"]
    [] predicate = "sameFlatType"
         /\ flatSchemaType(args[1].value) # flatSchemaType(args[Len(args)].value) ->
         [passed |-> FALSE, error |-> "must not change type"]
    [] OTHER -> [passed |-> TRUE, error |-> Null]

AssertionResult(reg, args) ==
  LET outcome == invoke(reg.predicate, args)
  IN  [type |-> reg.kind, changeOrFact |-> args, condition |-> reg.condition,
       passed |-> outcome.passed, error |-> outcome.error]

\* every registration of one lifecycle kind, run in registration order
runAssertions(regs, kind, args) ==
  LET ofKind == SelectSeq(regs, LAMBDA r : r.kind = kind)
  IN  [i \in 1..Len(ofKind) |-> AssertionResult(ofKind[i], args)]

runBefore(regs, before, change) ==
  IF change = "removed" THEN runAssertions(regs, "removed", <<before>>) ELSE <<>>

runAfter(regs, before, after, change) ==
  runAssertions(regs, "requirement", <<after>>)
  \o (IF change = "added" THEN runAssertions(regs, "added", <<after>>) ELSE <<>>)
  \o (IF change = "changed"
      THEN runAssertions(regs, "changed", <<before, after>>) ELSE <<>>)

assertionLifecycleToText(type) == type

\* createRequestBodyResult that reports the alias of a rule of a ruleset
createRequestBodyResult_aliased(assertionResult, requestBody, op, rule) ==
  [where |-> assertionLifecycleToText(assertionResult.type)
               \o " request with content-type: " \o requestBody.contentType
               \o " in operation: " \o toUpperCase(op.method) \o " " \o op.path,
   isMust |-> TRUE,
   change |-> assertionResult.changeOrFact,
   name |-> IF rule.aliases # <<>> THEN rule.aliases[1] ELSE rule.name,
   condition |-> assertionResult.condition,
   passed |-> assertionResult.passed,
   error |-> assertionResult.error,
   docsLink |-> rule.docsLink,
   isShould |-> FALSE]

\* ------------------------------------------------------------------------
\* Result assembly
\* ------------------------------------------------------------------------
createRequestBodyResult(assertionResult, requestBody, op, rule) ==
  [where |-> assertionLifecycleToText(assertionResult.type)
               \o " request with content-type: " \o requestBody.contentType
               \o " in operation: " \o toUpperCase(op.method) \o " " \o op.path,
   isMust |-> TRUE,
   change |-> assertionResult.changeOrFact,
   name |-> rule.name,
   condition |-> assertionResult.condition,
   passed |-> assertionResult.passed,
   error |-> assertionResult.error,
   docsLink |-> rule.docsLink,
   isShould |-> FALSE]

\* createRequestPropertyResult that leaves the error of the assertion out
createRequestPropertyResult_noError(assertionResult, property, requestBody, op, rule) ==
  [where |-> assertionLifecycleToText(assertionResult.type)
               \o " property: " \o property.jsonSchemaTrail
               \o " request body: " \o requestBody.contentType
               \o " in operation: " \o toUpperCase(op.method) \o " " \o op.path,
   isMust |-> TRUE,
   change |-> assertionResult.changeOrFact,
   name |-> rule.name,
   condition |-> assertionResult.condition,
   passed |-> assertionResult.passed,
   error |-> Null,
   docsLink |-> rule.docsLink,
   isShould |-> FALSE]

\* createRequestPropertyResult that sets both severity flags
createRequestPropertyResult_bothTiers(assertionResult, property, requestBody, op, rule) ==
  [where |-> assertionLifecycleToText(assertionResult.type)
               \o " property: " \o property.jsonSchemaTrail
               \o " request body: " \o requestBody.contentType
               \o " in operation: " \o toUpperCase(op.method) \o " " \o op.path,
   isMust |-> TRUE,
   change |-> assertionResult.changeOrFact,
   name |-> rule.name,
   condition |-> assertionResult.condition,
   passed |-> assertionResult.passed,
   error |-> assertionResult.error,
   docsLink |-> rule.docsLink,
   isShould |-> TRUE]

createRequestPropertyResult(assertionResult, property, requestBody, op, rule) ==
  [where |-> assertionLifecycleToText(assertionResult.type)
               \o " property: " \o property.jsonSchemaTrail
               \o " request body: " \o requestBody.contentType
               \o " in operation: " \o toUpperCase(op.method) \o " " \o op.path,
   isMust |-> TRUE,
   change |-> assertionResult.changeOrFact,
   name |-> rule.name,
   condition |-> assertionResult.condition,
   passed |-> assertionResult.passed,
   error |-> assertionResult.error,
   docsLink |-> rule.docsLink,
   isShould |-> FALSE]

\* ------------------------------------------------------------------------
\* runRequestRules
\* ------------------------------------------------------------------------
customRuleContext == "custom"

\* a Result as pushed, with the place of the push: the index of the flattened
\* rule, the pass, the content type, the property key (Null for the body) and
\* the lifecycle kind of the assertion that ran
Pushed(result, ruleIndex, pass, contentType, key, assertionResult) ==
  [result |-> result,
   at |-> [rule |-> ruleIndex, pass |-> pass, contentType |-> contentType,
           key |-> key, type |-> assertionResult.type,
           condition |-> assertionResult.condition,
           args |-> assertionResult.changeOrFact]]

\* one call of a rule body, with the context it was given and the collector
\* it left behind
Called(ruleIndex, pass, context, requestAssertions) ==
  [call |-> [rule |-> ruleIndex, pass |-> pass, context |-> context,
             collector |-> requestAssertions]]

\* one call of runBefore or runAfter, with the instances and the change it
\* was given
Visited(ruleIndex, pass, contentType, key, before, after, change) ==
  [visit |-> [rule |-> ruleIndex, pass |-> pass, contentType |-> contentType,
              key |-> key, before |-> before, after |-> after,
              change |-> change]]

\* ruleMatches without the call to the matcher
ruleMatches_always(requestRule, requestBody, context) == TRUE

\* !requestRule.matches || requestRule.matches(request, context)
ruleMatches(requestRule, requestBody, context) ==
  IsUndefined(requestRule.matches)
    \/ callMatches(requestRule.matches, requestBody, context)

\* bodyChange that never finds the change of the body
bodyChange_none(requestNode, contentType) == Null

\* request.bodies.get(contentType)?.change || null
bodyChange(requestNode, contentType) ==
  IF HasBody(requestNode.bodies, contentType)
  THEN Or(GetBody(requestNode.bodies, contentType).change, Null)
  ELSE Null

\* propertyChange that reads the change of the body, not of the property
propertyChange_ofBody(requestNode, contentType, key) ==
  IF HasBody(requestNode.bodies, contentType)
  THEN Or(GetBody(requestNode.bodies, contentType).change, Null)
  ELSE Null

\* request.bodies.get(contentType)?.fields.get(key)?.change || null
propertyChange(requestNode, contentType, key) ==
  IF /\ HasBody(requestNode.bodies, contentType)
     /\ HasField(GetBody(requestNode.bodies, contentType).fields, key)
  THEN Or(GetField(GetBody(requestNode.bodies, contentType).fields, key).change, Null)
  ELSE Null

\* pushBodyResults that stops at the first failed assertion
pushBodyResults_untilFailure(ran, requestBody, op, requestRule, ruleIndex, pass) ==
  [i \in 1..(IF \E j \in 1..Len(ran) : ~ran[j].passed
             THEN CHOOSE j \in 1..Len(ran) :
                    ~ran[j].passed /\ \A h \in 1..(j - 1) : ran[h].passed
             ELSE Len(ran)) |->
     Pushed(createRequestBodyResult(ran[i], requestBody, op, requestRule),
            ruleIndex, pass, requestBody.contentType, Null, ran[i])]

\* results.push(...ran.map((assertionResult) => createRequestBodyResult(...)))
pushBodyResults(ran, requestBody, op, requestRule, ruleIndex, pass) ==
  [i \in 1..Len(ran) |->
     Pushed(createRequestBodyResult(ran[i], requestBody, op, requestRule),
            ruleIndex, pass, requestBody.contentType, Null, ran[i])]

\* results.push(...ran.map((assertionResult) => createRequestPropertyResult(...)))
pushPropertyResults(ran, property, requestBody, op, requestRule, ruleIndex, pass) ==
  [i \in 1..Len(ran) |->
     Pushed(createRequestPropertyResult(ran[i], property, requestBody, op, requestRule),
            ruleIndex, pass, requestBody.contentType, property.key, ran[i])]

\* the before-pass of one rule over one body that exists before
beforeRequestResults(requestRule, ruleIndex, requestAssertions, beforeOperation, context, requestNode, beforeRequest) ==
  IF ~ruleMatches(requestRule, beforeRequest, context) THEN <<>>
  ELSE <<Visited(ruleIndex, "before", beforeRequest.contentType, Null,
                 beforeRequest, NullRequest,
                 bodyChange(requestNode, beforeRequest.contentType))>>
       \o pushBodyResults(
         runBefore(requestAssertions.body, beforeRequest,
                   bodyChange(requestNode, beforeRequest.contentType)),
         beforeRequest, beforeOperation, requestRule, ruleIndex, "before")
       \o Flatten([i \in 1..Len(beforeRequest.properties) |->
            <<Visited(ruleIndex, "before", beforeRequest.contentType,
                      beforeRequest.properties[i].key,
                      beforeRequest.properties[i], NullField,
                      propertyChange(requestNode, beforeRequest.contentType,
                                     beforeRequest.properties[i].key))>>
            \o pushPropertyResults(
              runBefore(requestAssertions.property, beforeRequest.properties[i],
                        propertyChange(requestNode, beforeRequest.contentType,
                                       beforeRequest.properties[i].key)),
              beforeRequest.properties[i], beforeRequest, beforeOperation,
              requestRule, ruleIndex, "before")])

\* the before-pass of one rule over one content type
beforeContentType(requestRule, ruleIndex, requestAssertions, beforeOperation, context, requestNode, beforeRequest) ==
  IF beforeRequest = NullRequest THEN <<>>
  ELSE beforeRequestResults(requestRule, ruleIndex, requestAssertions,
                            beforeOperation, context, requestNode, beforeRequest)

\* the before-pass of one rule over every content type
beforeContentTypes(requestRule, ruleIndex, requestAssertions, beforeOperation, context, requestNode) ==
  Flatten([i \in 1..Len(requestNode.bodies) |->
             beforeContentType(requestRule, ruleIndex, requestAssertions,
                               beforeOperation, context, requestNode,
                               createRequest(requestNode,
                                             BodyKeys(requestNode.bodies)[i],
                                             "before"))])

\* the rule body called with the before-context, then the before-pass
beforeOperationResults(requestRule, ruleIndex, beforeOperation, context, requestNode) ==
  <<Called(ruleIndex, "before", context, callRule(requestRule.rule, context))>>
  \o beforeContentTypes(requestRule, ruleIndex, callRule(requestRule.rule, context),
                        beforeOperation, context, requestNode)

\* the before-pass of one rule
runBeforePass(requestRule, ruleIndex, endpoint, requestNode) ==
  IF createOperation(endpoint, "before") = NullOperation THEN <<>>
  ELSE beforeOperationResults(
         requestRule, ruleIndex, createOperation(endpoint, "before"),
         createBeforeOperationContext(createOperation(endpoint, "before"),
                                      customRuleContext),
         requestNode)

\* afterRequestResults whose matcher gates the body and not its properties
afterRequestResults_propertiesUngated(requestRule, ruleIndex, requestAssertions, afterOperation, context, requestNode, maybeBeforeRequest, afterRequest) ==
  (IF ~ruleMatches(requestRule, afterRequest, context) THEN <<>>
   ELSE <<Visited(ruleIndex, "after", afterRequest.contentType, Null,
                 maybeBeforeRequest, afterRequest,
                 bodyChange(requestNode, afterRequest.contentType))>>
       \o pushBodyResults(
         runAfter(requestAssertions.body, maybeBeforeRequest, afterRequest,
                  bodyChange(requestNode, afterRequest.contentType)),
         afterRequest, afterOperation, requestRule, ruleIndex, "after"))
       \o Flatten([i \in 1..Len(afterRequest.properties) |->
            <<Visited(ruleIndex, "after", afterRequest.contentType,
                      afterRequest.properties[i].key,
                      GetProperty(maybeBeforeRequest, afterRequest.properties[i].key),
                      afterRequest.properties[i],
                      propertyChange(requestNode, afterRequest.contentType,
                                     afterRequest.properties[i].key))>>
            \o pushPropertyResults(
              runAfter(requestAssertions.property,
                       GetProperty(maybeBeforeRequest, afterRequest.properties[i].key),
                       afterRequest.properties[i],
                       propertyChange(requestNode, afterRequest.contentType,
                                      afterRequest.properties[i].key)),
              afterRequest.properties[i], afterRequest, afterOperation,
              requestRule, ruleIndex, "after")])

\* the after-pass of one rule over one body that exists after
afterRequestResults(requestRule, ruleIndex, requestAssertions, afterOperation, context, requestNode, maybeBeforeRequest, afterRequest) ==
  IF ~ruleMatches(requestRule, afterRequest, context) THEN <<>>
  ELSE <<Visited(ruleIndex, "after", afterRequest.contentType, Null,
                 maybeBeforeRequest, afterRequest,
                 bodyChange(requestNode, afterRequest.contentType))>>
       \o pushBodyResults(
         runAfter(requestAssertions.body, maybeBeforeRequest, afterRequest,
                  bodyChange(requestNode, afterRequest.contentType)),
         afterRequest, afterOperation, requestRule, ruleIndex, "after")
       \o Flatten([i \in 1..Len(afterRequest.properties) |->
            <<Visited(ruleIndex, "after", afterRequest.contentType,
                      afterRequest.properties[i].key,
                      GetProperty(maybeBeforeRequest, afterRequest.properties[i].key),
                      afterRequest.properties[i],
                      propertyChange(requestNode, afterRequest.contentType,
                                     afterRequest.properties[i].key))>>
            \o pushPropertyResults(
              runAfter(requestAssertions.property,
                       GetProperty(maybeBeforeRequest, afterRequest.properties[i].key),
                       afterRequest.properties[i],
                       propertyChange(requestNode, afterRequest.contentType,
                                      afterRequest.properties[i].key)),
              afterRequest.properties[i], afterRequest, afterOperation,
              requestRule, ruleIndex, "after")])

\* the after-pass of one rule over one content type
afterContentType(requestRule, ruleIndex, requestAssertions, afterOperation, context, requestNode, maybeBeforeRequest, afterRequest) ==
  IF afterRequest = NullRequest THEN <<>>
  ELSE afterRequestResults(requestRule, ruleIndex, requestAssertions, afterOperation,
                           context, requestNode, maybeBeforeRequest, afterRequest)

\* the after-pass of one rule over every content type
afterContentTypes(requestRule, ruleIndex, requestAssertions, afterOperation, context, requestNode) ==
  Flatten([i \in 1..Len(requestNode.bodies) |->
             afterContentType(requestRule, ruleIndex, requestAssertions,
                              afterOperation, context, requestNode,
                              createRequest(requestNode,
                                            BodyKeys(requestNode.bodies)[i],
                                            "before"),
                              createRequest(requestNode,
                                            BodyKeys(requestNode.bodies)[i],
                                            "after"))])

\* afterOperationResults that calls the rule body once per content type
afterOperationResults_perContentType(requestRule, ruleIndex, afterOperation, context, requestNode) ==
  Flatten([i \in 1..Len(requestNode.bodies) |->
             <<Called(ruleIndex, "after", context,
                      callRule(requestRule.rule, context))>>])
  \o afterContentTypes(requestRule, ruleIndex, callRule(requestRule.rule, context),
                       afterOperation, context, requestNode)

\* afterOperationResults that runs the after-pass on the registrations made
\* with the before-context
afterOperationResults_beforeCollector(requestRule, ruleIndex, afterOperation, context, requestNode) ==
  <<Called(ruleIndex, "after", context, callRule(requestRule.rule, context))>>
  \o afterContentTypes(requestRule, ruleIndex,
                       callRule(requestRule.rule,
                                createBeforeOperationContext(afterOperation,
                                                             customRuleContext)),
                       afterOperation, context, requestNode)

\* the rule body called with the after-context, then the after-pass
afterOperationResults(requestRule, ruleIndex, afterOperation, context, requestNode) ==
  <<Called(ruleIndex, "after", context, callRule(requestRule.rule, context))>>
  \o afterContentTypes(requestRule, ruleIndex, callRule(requestRule.rule, context),
                       afterOperation, context, requestNode)

\* the after-pass of one rule
runAfterPass(requestRule, ruleIndex, endpoint, requestNode) ==
  IF createOperation(endpoint, "after") = NullOperation THEN <<>>
  ELSE afterOperationResults(
         requestRule, ruleIndex, createOperation(endpoint, "after"),
         createAfterOperationContext(createOperation(endpoint, "after"),
                                     customRuleContext, Or(endpoint.change, Null)),
         requestNode)

\* runRules that runs the after-pass of a rule ahead of its before-pass
runRules_afterFirst(flattened, endpoint, requestNode) ==
  Flatten([i \in 1..Len(flattened) |->
             runAfterPass(flattened[i], i, endpoint, requestNode)
             \o runBeforePass(flattened[i], i, endpoint, requestNode)])

\* the two passes of every flattened rule, in the order of the rules
runRules(flattened, endpoint, requestNode) ==
  Flatten([i \in 1..Len(flattened) |->
             runBeforePass(flattened[i], i, endpoint, requestNode)
             \o runAfterPass(flattened[i], i, endpoint, requestNode)])

\* everything one evaluation did, in the order done: the calls of the rule
\* bodies, the calls of runBefore and runAfter, and the Results pushed
runRequestRules(endpoint, requestNode, ruleList) ==
  runRules(getRequestRules(ruleList), endpoint, requestNode)

\* the Results pushed, the rule body calls and the executor calls among what
\* an evaluation did
PushedOf(done) == SelectSeq(done, LAMBDA d : "result" \in DOMAIN d)

CallsOf(done) ==
  LET made == SelectSeq(done, LAMBDA d : "call" \in DOMAIN d)
  IN  [i \in 1..Len(made) |-> made[i].call]

VisitsOf(done) ==
  LET made == SelectSeq(done, LAMBDA d : "visit" \in DOMAIN d)
  IN  [i \in 1..Len(made) |-> made[i].visit]

\* ------------------------------------------------------------------------
\* The rules a runner is built with
\* ------------------------------------------------------------------------
NoRequiredRemoval == RequestRule("no-required-removal", Null, Null, "all")

RequestType == RequestRule("request type", "https://docs/request-type", "isXml", "twice")

RequestShape == RequestRule("request shape", "", "isJson", "byContext")

OperationId == OperationRule("operation id", "https://docs/operation-id", Null, "all")

BreakingChanges ==
  Ruleset("Breaking Changes", "https://docs/breaking-changes", "isJson",
          <<NoRequiredRemoval, OperationId, RequestType, RequestShape>>)

Naming == Ruleset("Naming", Null, Null, <<RequestShape, NoRequiredRemoval>>)

RuleCatalog == {NoRequiredRemoval, RequestType, OperationId, BreakingChanges, Naming}

RuleLists == SeqUpTo(RuleCatalog, MaxRules)

\* ------------------------------------------------------------------------
\* The state machine
\* ------------------------------------------------------------------------
Init ==
  /\ rules \in RuleLists
  /\ \E i \in Inputs : operation = i.operation /\ request = i.request
  /\ pc = "ready"
  /\ requestRules = <<>>
  /\ results = <<>>
  /\ trace = <<>>
  /\ calls = <<>>
  /\ visits = <<>>
  /\ earlier = <<>>
  /\ example = Null
  /\ exception = Null
  /\ generator = Null
  /\ command = Null

\* runRequestRules({operation, request, rules, ...}), from entry to return
RunRequestRules ==
  /\ pc = "ready"
  /\ requestRules' = getRequestRules(rules)
  /\ \E done \in {runRequestRules(operation, request, rules)} :
       /\ \E pushed \in {PushedOf(done)} :
            /\ results' = [i \in 1..Len(pushed) |-> pushed[i].result]
            /\ trace' = [i \in 1..Len(pushed) |-> pushed[i].at]
       /\ calls' = CallsOf(done)
       /\ visits' = VisitsOf(done)
  /\ pc' = "done"
  /\ UNCHANGED <<rules, operation, request, earlier, example, exception, generator, command>>

Next == RunRequestRules

Spec == Init /\ [][Next]_vars

\* ------------------------------------------------------------------------
\* A RuleRunner asked to evaluate one pair of documents after another
\* ------------------------------------------------------------------------
\* the rules of the tests, and a rule declared as should
MustContainType == RequestRule("request type", Null, Null, "requestType")

RequestRemoval == RequestRule("request removal", Null, Null, "requestRemoval")

PropertyType == RequestRule("property type", Null, Null, "propertyType")

Advisory == Should(RequestRule("advisory", Null, "isJson", "all"))

RunnerCatalog == {MustContainType, RequestRemoval, PropertyType, Advisory}

RunnerRuleLists == SeqUpTo(RunnerCatalog, MaxRules)

\* the facts of one operation of a pair of documents
Document(hasBefore, hasAfter, bodies) ==
  [operation |-> OperationNode(hasBefore, hasAfter), request |-> [bodies |-> bodies]]

\* the pairs of documents of the tests: a body with and without a type, a
\* removed body of type string and of type array, a property that changes
\* its format and one that changes its type, an added and a removed
\* operation, two content types, no request body
Documents ==
  {Document(TRUE, TRUE, <<BodyNode("application/json", <<"string", "string">>, <<>>)>>),
   Document(TRUE, TRUE, <<BodyNode("application/json", <<"any", "any">>, <<>>)>>),
   Document(TRUE, TRUE, <<BodyNode("application/json", <<"string", Null>>, <<>>)>>),
   Document(TRUE, TRUE, <<BodyNode("application/json", <<"array", Null>>, <<>>)>>),
   Document(TRUE, TRUE,
            <<BodyNode("application/json", <<"array", "array">>,
                       <<FieldNode("hello", <<"string:uuid", "string:date">>)>>)>>),
   Document(TRUE, TRUE,
            <<BodyNode("application/json", <<"array", "array">>,
                       <<FieldNode("hello", <<"string:uuid", "number">>)>>)>>),
   Document(FALSE, TRUE,
            <<BodyNode("application/json", <<Null, "string">>,
                       <<FieldNode("hello", <<Null, "string">>)>>)>>),
   Document(TRUE, FALSE, <<BodyNode("application/json", <<"array", Null>>, <<>>)>>),
   Document(TRUE, TRUE,
            <<BodyNode("application/json", <<"any", "any">>, <<>>),
              BodyNode("application/xml", <<"any", "any">>, <<>>)>>),
   Document(TRUE, TRUE, <<>>)}

\* new RuleRunner(rules): nothing evaluated yet
InitRunner ==
  /\ rules \in RunnerRuleLists
  /\ operation = OperationNode(TRUE, TRUE)
  /\ request = [bodies |-> <<>>]
  /\ pc = "constructed"
  /\ requestRules = <<>>
  /\ results = <<>>
  /\ trace = <<>>
  /\ calls = <<>>
  /\ visits = <<>>
  /\ earlier = <<>>
  /\ example = Null
  /\ exception = Null
  /\ generator = Null
  /\ command = Null

\* the evaluations made so far
Runs == Len(earlier) + (IF pc = "evaluated" THEN 1 ELSE 0)

\* newResults that goes on with the Result list of the evaluation before
newResults_kept(left) == left

\* const results: Result[] = [], whatever an evaluation before left behind
newResults(left) == <<>>

\* ruleRunner.runRulesWithFacts(inputs) on the runner as it stands: one
\* runRequestRules with the rules of the runner, from entry to return
RunRulesWithFacts ==
  /\ pc \in {"constructed", "evaluated"}
  /\ Runs < MaxRuns
  /\ \E document \in Documents :
       /\ operation' = document.operation
       /\ request' = document.request
       /\ \E done \in {runRequestRules(document.operation, document.request, rules)} :
            /\ \E pushed \in {PushedOf(done)} :
                 /\ results' = newResults(results)
                                  \o [i \in 1..Len(pushed) |-> pushed[i].result]
                 /\ trace' = newResults(trace)
                                \o [i \in 1..Len(pushed) |-> pushed[i].at]
            /\ calls' = CallsOf(done)
            /\ visits' = VisitsOf(done)
  /\ requestRules' = getRequestRules(rules)
  /\ earlier' = IF pc = "evaluated"
                THEN Append(earlier, [operation |-> operation, request |-> request,
                                      results |-> results])
                ELSE earlier
  /\ pc' = "evaluated"
  /\ UNCHANGED <<rules, example, exception, generator, command>>

NextRunner == RunRulesWithFacts

SpecRunner == InitRunner /\ [][NextRunner]_vars

\* ------------------------------------------------------------------------
\* runRequestRules over lists of single rules, no rulesets
\* ------------------------------------------------------------------------
SingleRules == {NoRequiredRemoval, RequestType, RequestShape, OperationId}

SingleRuleLists == SeqUpTo(SingleRules, MaxRules)

InitSingleRules ==
  /\ rules \in SingleRuleLists
  /\ \E i \in Inputs : operation = i.operation /\ request = i.request
  /\ pc = "ready"
  /\ requestRules = <<>>
  /\ results = <<>>
  /\ trace = <<>>
  /\ calls = <<>>
  /\ visits = <<>>
  /\ earlier = <<>>
  /\ example = Null
  /\ exception = Null
  /\ generator = Null
  /\ command = Null

NextSingleRules == RunRequestRules

SpecSingleRules == InitSingleRules /\ [][NextSingleRules]_vars

\* ------------------------------------------------------------------------
\* runRequestRules with rule bodies and matchers that throw
\* ------------------------------------------------------------------------
\* what a rule body throws when it is called with a context, Null when it
\* returns
ruleThrows(rule, context) ==
  CASE rule = "brokenBody" -> "rule body failed"
    [] rule = "brokenWhenAdded" ->
         IF context.operation.change = "added"
         THEN "rule body failed on added operation" ELSE Null
    [] OTHER -> Null

\* what a user matcher throws when it is called, Null when it returns
matcherThrows(matcher, requestBody, context) ==
  CASE matcher = "brokenOnXml" ->
         IF requestBody.contentType = "application/xml"
         THEN "matcher failed" ELSE Null
    [] OTHER -> Null

\* what the call of the matches member of a flattened rule throws
matchesThrows(matches, requestBody, context) ==
  IF IsUndefined(matches) THEN Null
  ELSE IF ~matches.combined
  THEN matcherThrows(matches.ruleMatcher, requestBody, context)
  ELSE IF matches.ruleMatcher # Null
          /\ matcherThrows(matches.ruleMatcher, requestBody, context) # Null
  THEN matcherThrows(matches.ruleMatcher, requestBody, context)
  ELSE IF matches.rulesetMatcher # Null
          /\ (matches.ruleMatcher = Null
              \/ callMatcher(matches.ruleMatcher, requestBody, context))
  THEN matcherThrows(matches.rulesetMatcher, requestBody, context)
  ELSE Null

\* the exceptions one pass of one rule meets, in the order met: the call of
\* the rule body, then the call of the matcher on each body of the side
passThrows(requestRule, context, requestNode, side) ==
  (IF ruleThrows(requestRule.rule, context) # Null
   THEN <<ruleThrows(requestRule.rule, context)>> ELSE <<>>)
  \o Flatten([i \in 1..Len(requestNode.bodies) |->
       LET instance == createRequest(requestNode, requestNode.bodies[i].contentType, side)
       IN  IF instance # NullRequest
              /\ matchesThrows(requestRule.matches, instance, context) # Null
           THEN <<matchesThrows(requestRule.matches, instance, context)>>
           ELSE <<>>])

\* the exceptions of the calls runRequestRules makes outside the assertion
\* executors, in the order of the calls
uncaught(flattened, endpoint, requestNode) ==
  Flatten([i \in 1..Len(flattened) |->
    (IF createOperation(endpoint, "before") = NullOperation THEN <<>>
     ELSE passThrows(flattened[i],
                     createBeforeOperationContext(createOperation(endpoint, "before"),
                                                  customRuleContext),
                     requestNode, "before"))
    \o
    (IF createOperation(endpoint, "after") = NullOperation THEN <<>>
     ELSE passThrows(flattened[i],
                     createAfterOperationContext(createOperation(endpoint, "after"),
                                                 customRuleContext,
                                                 Or(endpoint.change, Null)),
                     requestNode, "after"))])

\* an exception made into a failed Result
FailedResult(error) ==
  [where |-> "evaluation", isMust |-> TRUE, change |-> Null, name |-> "evaluation",
   condition |-> "evaluation", passed |-> FALSE, error |-> error,
   docsLink |-> Null, isShould |-> FALSE]

\* what the caller of runRequestRules gets: the exception thrown, or the
\* Results returned; here the exception is recorded as a failed Result
outcome_recorded(endpoint, requestNode, ruleList) ==
  LET failures == uncaught(getRequestRules(ruleList), endpoint, requestNode)
      pushed == PushedOf(runRequestRules(endpoint, requestNode, ruleList))
  IN  [thrown |-> Null,
       results |-> (IF failures # <<>> THEN <<FailedResult(failures[1])>> ELSE <<>>)
                   \o [i \in 1..Len(pushed) |-> pushed[i].result]]

\* what the caller of runRequestRules gets: the first exception of a rule
\* body or a matcher, which nothing in runRequestRules catches, or the
\* Results returned
outcome(endpoint, requestNode, ruleList) ==
  LET failures == uncaught(getRequestRules(ruleList), endpoint, requestNode)
      pushed == PushedOf(runRequestRules(endpoint, requestNode, ruleList))
  IN  IF failures # <<>>
      THEN [thrown |-> failures[1], results |-> Null]
      ELSE [thrown |-> Null, results |-> [i \in 1..Len(pushed) |-> pushed[i].result]]

BrokenBody == RequestRule("broken body", Null, Null, "brokenBody")

BrokenWhenAdded == RequestRule("broken when added", Null, "isJson", "brokenWhenAdded")

BrokenMatcher == RequestRule("broken matcher", Null, "brokenOnXml", "all")

Guarded == Ruleset("Guarded", Null, Null, <<BrokenMatcher>>)

FaultyCatalog == {RequestType, BrokenBody, BrokenWhenAdded, BrokenMatcher, Guarded}

FaultyRuleLists == SeqUpTo(FaultyCatalog, MaxRules)

InitFaulty ==
  /\ rules \in FaultyRuleLists
  /\ \E i \in Inputs : operation = i.operation /\ request = i.request
  /\ pc = "ready"
  /\ requestRules = <<>>
  /\ results = <<>>
  /\ trace = <<>>
  /\ calls = <<>>
  /\ visits = <<>>
  /\ earlier = <<>>
  /\ example = Null
  /\ exception = Null
  /\ generator = Null
  /\ command = Null

\* one call of runRequestRules, as its caller sees it
Evaluate ==
  /\ pc = "ready"
  /\ requestRules' = getRequestRules(rules)
  /\ \E got \in {outcome(operation, request, rules)} :
       /\ exception' = got.thrown
       /\ results' = got.results
       /\ pc' = IF got.thrown # Null THEN "threw" ELSE "returned"
  /\ UNCHANGED <<rules, operation, request, trace, calls, visits, earlier, example,
                 generator, command>>

NextFaulty == Evaluate

SpecFaulty == InitFaulty /\ [][NextFaulty]_vars

\* ------------------------------------------------------------------------
\* The Diff Classifier
\* ------------------------------------------------------------------------
\* a schema subtree: its type, its required array and its description
SchemaValue(type, required, description) ==
  [type |-> type, required |-> required, description |-> description]

\* an absent side
NullValue == SchemaValue(Null, <<>>, Null)

SchemaValues ==
  {SchemaValue(type, required, description) :
     type \in {"string", "object"},
     required \in {<<>>, <<"hello">>, <<"hello", "world">>, <<"world", "hello">>},
     description \in {Null, "a description"}}

\* the part of a subtree that has a meaning: the description is left out
\* and the required array is taken as a set
Meaningful(value) ==
  [type |-> value.type,
   required |-> {value.required[i] : i \in 1..Len(value.required)}]

\* equality of two subtrees member by member, arrays position by position
positionalEqual(before, after) ==
  before.type = after.type /\ before.required = after.required

\* deep structural equality over the meaningful part of two subtrees
deepEqual(before, after) == Meaningful(before) = Meaningful(after)

\* ChangeClassification that compares with positionalEqual
ChangeClassification_positional(before, after) ==
  IF before = NullValue THEN "Added"
  ELSE IF after = NullValue THEN "Removed"
  ELSE IF positionalEqual(before, after) THEN "Unchanged"
  ELSE "Changed"

\* classify(before?, after?) for a pair with at least one side present
ChangeClassification(before, after) ==
  IF before = NullValue THEN "Added"
  ELSE IF after = NullValue THEN "Removed"
  ELSE IF deepEqual(before, after) THEN "Unchanged"
  ELSE "Changed"

\* the pairs a classifier may be called with: both absent is not a valid call
ValuePairs ==
  {p \in (SchemaValues \cup {NullValue}) \X (SchemaValues \cup {NullValue}) :
     p[1] # NullValue \/ p[2] # NullValue}

InitClassify ==
  /\ \E p \in ValuePairs : example = [before |-> p[1], after |-> p[2]]
  /\ rules = <<>>
  /\ operation = OperationNode(TRUE, TRUE)
  /\ request = [bodies |-> <<>>]
  /\ pc = "pair"
  /\ requestRules = <<>>
  /\ results = <<>>
  /\ trace = <<>>
  /\ calls = <<>>
  /\ visits = <<>>
  /\ earlier = <<>>
  /\ exception = Null
  /\ generator = Null
  /\ command = Null

\* the pair classified, and classified again with its sides swapped
Classify ==
  /\ pc = "pair"
  /\ results' = [asGiven |-> ChangeClassification(example.before, example.after),
                 swapped |-> ChangeClassification(example.after, example.before)]
  /\ pc' = "classified"
  /\ UNCHANGED <<rules, operation, request, requestRules, trace, calls, visits,
                 earlier, example, exception, generator, command>>

NextClassify == Classify

SpecClassify == InitClassify /\ [][NextClassify]_vars

\* ------------------------------------------------------------------------
\* The check 'required properties in response should not be removed'
\* ------------------------------------------------------------------------
PropertyKeys == <<"lookAtMe", "id", "name", "email", "phone">>

\* a property of the body schema before the change: whether the schema
\* lists it as required, and whether the change takes it away
SchemaProperty(key, required, removed) ==
  [key |-> key, required |-> required, removed |-> removed]

\* the body schemas of at most MaxProperties properties with their change
SchemaChanges ==
  Picks([i \in 1..MaxProperties |->
           {SchemaProperty(PropertyKeys[i], required, removed) :
              required \in BOOLEAN, removed \in BOOLEAN}])

\* scenario(...).responseBodySchema.changed(schema, change), and the same
\* for the body schema of a request
Scenario(location, properties) == [location |-> location, properties |-> properties]

Scenarios ==
  {Scenario(location, properties) :
     location \in {"inResponse", "inRequest"}, properties \in SchemaChanges}

\* the context a handler gets for a property: it has the member inResponse
\* for a property of a response body and inRequest for one of a request body
PropertyContext(location) ==
  IF location = "inResponse" THEN [inResponse |-> TRUE] ELSE [inRequest |-> TRUE]

\* the handler that fails for every required property, wherever it is
notBeRemovedIfRequired_anywhere(property, context) ==
  IF property.required
  THEN "removing required property '" \o property.key \o "' is a breaking change"
  ELSE Null

\* the handler given to bodyProperties.removed.must: what it throws, Null
\* when it returns
notBeRemovedIfRequired(property, context) ==
  IF "inResponse" \in DOMAIN context /\ property.required
  THEN "removing required property '" \o property.key \o "' is a breaking change"
  ELSE Null

\* bodyProperties.removed.must(statement, handler) run over an example: one
\* Result per removed property, failed with the message the handler threw
mustOnRemoved(statement, scenario) ==
  LET gone == SelectSeq(scenario.properties, LAMBDA q : q.removed)
  IN  [i \in 1..Len(gone) |->
         LET thrown == notBeRemovedIfRequired(gone[i],
                                              PropertyContext(scenario.location))
         IN  [where |-> "removed property: " \o gone[i].key,
              condition |-> statement,
              isMust |-> TRUE, isShould |-> FALSE,
              passed |-> thrown = Null, error |-> thrown]]

\* the check with one of its examples, not run yet
InitCheck ==
  /\ example \in Scenarios
  /\ rules = <<>>
  /\ operation = OperationNode(TRUE, TRUE)
  /\ request = [bodies |-> <<>>]
  /\ pc = "example"
  /\ requestRules = <<>>
  /\ results = <<>>
  /\ trace = <<>>
  /\ calls = <<>>
  /\ visits = <<>>
  /\ earlier = <<>>
  /\ exception = Null
  /\ generator = Null
  /\ command = Null

\* the implementation of the check run on the example
RunCheck ==
  /\ pc = "example"
  /\ results' = mustOnRemoved("not be removed from response bodies if required ",
                              example)
  /\ pc' = "checked"
  /\ UNCHANGED <<rules, operation, request, requestRules, trace, calls, visits,
                 earlier, example, exception, generator, command>>

NextCheck == RunCheck

SpecCheck == InitCheck /\ [][NextCheck]_vars

\* ------------------------------------------------------------------------
\* generateRuleRunner
\* ------------------------------------------------------------------------
\* the names a configuration may give its rulesets, and what comes before
\* their last three characters where those may be .js
Stems ==
  {"breaking-changes", "standard", "./rules/local", "./rules/missing",
   "@org/hosted", "@org/unknown"}

RulesetNames ==
  {"breaking-changes", "standard.js", "./rules/local.js", "./rules/missing.js",
   "@org/hosted", "@org/unknown"}

\* the keys of the catalog of standard rulesets
StandardRulesets == {"breaking-changes", "standard.js"}

\* the rulesets the hosted registry has, and the files that load
HostedByRegistry == {"@org/hosted"}

LoadableFiles == {"./rules/local.js"}

\* name.endsWith('.js')
isLocalJsFile(name) == \E stem \in Stems : name = stem \o ".js"

\* config.ruleset and checksEnabled
Configs ==
  {[ruleset |-> names, checksEnabled |-> enabled] :
     names \in SeqUpTo(RulesetNames, MaxNames), enabled \in BOOLEAN}

\* the locals of generateRuleRunner when it is entered
Entered(config) ==
  [config |-> config, at |-> 1, rulesToFetch |-> <<>>, localRulesets |-> <<>>,
   hostedRulesets |-> <<>>, requested |-> <<>>, contacted |-> FALSE,
   rulesets |-> <<>>, console |-> <<>>, returned |-> <<>>]

\* the body of the loop over config.ruleset that asks endsWith first
route_jsFirst(locals, name) ==
  IF isLocalJsFile(name)
  THEN [locals EXCEPT !.localRulesets = @ \o <<[name |-> name, path |-> name]>>]
  ELSE IF name \in StandardRulesets THEN locals
  ELSE [locals EXCEPT !.rulesToFetch = Append(@, name)]

\* the body of the loop over config.ruleset
route(locals, name) ==
  IF name \in StandardRulesets THEN locals
  ELSE IF isLocalJsFile(name)
  THEN [locals EXCEPT !.localRulesets = @ \o <<[name |-> name, path |-> name]>>]
  ELSE [locals EXCEPT !.rulesToFetch = Append(@, name)]

\* client.getManyRulesetsByName: one entry per name asked, Null for a name
\* the registry does not have
getManyRulesetsByName(names) ==
  [i \in 1..Len(names) |->
     IF names[i] \in HostedByRegistry
     THEN [name |-> names[i], uploaded_at |-> "2023-01-01",
           url |-> "https://registry/" \o names[i]]
     ELSE [name |-> Null, uploaded_at |-> Null, url |-> Null]]

\* the loop over response.rulesets: the null entries are skipped
hostedOf(response) ==
  LET found == SelectSeq(response, LAMBDA hostedRuleset : hostedRuleset.name # Null)
  IN  [i \in 1..Len(found) |->
         [name |-> found[i].name, uploaded_at |-> found[i].uploaded_at,
          url |-> found[i].url]]

NamesOf(entries) == {entries[i].name : i \in 1..Len(entries)}

\* whether RulesetConfig.prepareRulesets resolves a configured name
Resolves(name, localRulesets, hostedRulesets) ==
  \/ name \in StandardRulesets
  \/ name \in NamesOf(localRulesets) /\ name \in LoadableFiles
  \/ name \in NamesOf(hostedRulesets)

\* RulesetConfig.prepareRulesets: the rulesets that resolve, in the order
\* configured, and one warning for each name that does not
prepareRulesets(ruleset, localRulesets, hostedRulesets) ==
  LET resolved == SelectSeq(ruleset,
                    LAMBDA name : Resolves(name, localRulesets, hostedRulesets))
      unresolved == SelectSeq(ruleset,
                      LAMBDA name : ~Resolves(name, localRulesets, hostedRulesets))
  IN  [rulesets |-> [i \in 1..Len(resolved) |-> Ruleset(resolved[i], Null, Null, <<>>)],
       warnings |-> [i \in 1..Len(unresolved) |->
                       "could not resolve ruleset " \o unresolved[i]]]

\* the loop over results.warnings that writes nothing
consoleError_dropped(console, warnings) == console

\* for (const warning of results.warnings) console.error(warning)
consoleError(console, warnings) == console \o warnings

\* new RuleRunner(rulesets)
RuleRunner(rulesets) == <<[rulesets |-> rulesets]>>

InitGenerate ==
  /\ \E config \in Configs : generator = Entered(config)
  /\ rules = <<>>
  /\ operation = OperationNode(TRUE, TRUE)
  /\ request = [bodies |-> <<>>]
  /\ pc = "entered"
  /\ requestRules = <<>>
  /\ results = <<>>
  /\ trace = <<>>
  /\ calls = <<>>
  /\ visits = <<>>
  /\ earlier = <<>>
  /\ example = Null
  /\ exception = Null
  /\ command = Null

Unused ==
  UNCHANGED <<rules, operation, request, requestRules, results, trace, calls,
              visits, earlier, example, exception, command>>

\* if (checksEnabled)
CheckEnabled ==
  /\ pc = "entered"
  /\ pc' = IF generator.config.checksEnabled THEN "routing" ELSE "returning"
  /\ UNCHANGED generator
  /\ Unused

\* one turn of the loop over config.ruleset
Route ==
  /\ pc = "routing"
  /\ generator.at <= Len(generator.config.ruleset)
  /\ generator' = [route(generator, generator.config.ruleset[generator.at])
                     EXCEPT !.at = @ + 1]
  /\ UNCHANGED pc
  /\ Unused

\* the request to the registry and the loop over its response
Fetch ==
  /\ pc = "routing"
  /\ generator.at > Len(generator.config.ruleset)
  /\ generator' =
       [generator EXCEPT
          !.contacted = TRUE,
          !.requested = generator.rulesToFetch,
          !.hostedRulesets = hostedOf(getManyRulesetsByName(generator.rulesToFetch))]
  /\ pc' = "preparing"
  /\ Unused

\* prepareRulesets, the assignment of rulesets and the loop over the warnings
Prepare ==
  /\ pc = "preparing"
  /\ \E prepared \in {prepareRulesets(generator.config.ruleset,
                                     generator.localRulesets,
                                     generator.hostedRulesets)} :
       generator' =
         [generator EXCEPT
            !.rulesets = prepared.rulesets,
            !.console = consoleError(generator.console, prepared.warnings)]
  /\ pc' = "returning"
  /\ Unused

\* return new RuleRunner(rulesets)
Return ==
  /\ pc = "returning"
  /\ generator' = [generator EXCEPT !.returned = RuleRunner(generator.rulesets)]
  /\ pc' = "returned"
  /\ Unused

NextGenerate == CheckEnabled \/ Route \/ Fetch \/ Prepare \/ Return

SpecGenerate == InitGenerate /\ [][NextGenerate]_vars

\* ------------------------------------------------------------------------
\* The verify command
\* ------------------------------------------------------------------------
\* what renderDiffs returns: the diffs of all kinds and those of shape
DiffResults ==
  {r \in [totalDiffCount : 0..MaxDiffs, shapeDiff : 0..MaxDiffs] :
     r.shapeDiff <= r.totalDiffCount}

\* command.opts() of one invocation
Options ==
  {[exit0 |-> exit0, document |-> document, patch |-> patch] :
     exit0 \in BOOLEAN, document \in BOOLEAN, patch \in BOOLEAN}

\* one invocation of verify: its options, whether the file exists, and what
\* the diffing of the traffic against the specification will find
Invoked(options, pathExists, diffResults, undocumentedPaths) ==
  [options |-> options, pathExists |-> pathExists, diffResults |-> diffResults,
   renderingStatus |-> [undocumentedPaths |-> undocumentedPaths],
   console |-> <<>>, exitCode |-> 0]

\* hasDiff that counts the diffs of shape
hasDiff_shapeOnly(diffResults, renderingStatus) ==
  diffResults.shapeDiff + renderingStatus.undocumentedPaths > 0

\* diffResults.totalDiffCount + renderingStatus.undocumentedPaths > 0
hasDiff(diffResults, renderingStatus) ==
  diffResults.totalDiffCount + renderingStatus.undocumentedPaths > 0

InitVerify ==
  /\ \E options \in Options, pathExists \in BOOLEAN, diffResults \in DiffResults,
        undocumentedPaths \in 0..MaxDiffs :
       command = Invoked(options, pathExists, diffResults, undocumentedPaths)
  /\ rules = <<>>
  /\ operation = OperationNode(TRUE, TRUE)
  /\ request = [bodies |-> <<>>]
  /\ pc = "invoked"
  /\ requestRules = <<>>
  /\ results = <<>>
  /\ trace = <<>>
  /\ calls = <<>>
  /\ visits = <<>>
  /\ earlier = <<>>
  /\ example = Null
  /\ exception = Null
  /\ generator = Null

Untouched ==
  UNCHANGED <<rules, operation, request, requestRules, results, trace, calls,
              visits, earlier, example, exception, generator>>

\* if (!(await fs.pathExists(absoluteSpecPath))) return feedback.inputError(...)
FindSpec ==
  /\ pc = "invoked"
  /\ IF command.pathExists
     THEN /\ pc' = "found"
          /\ UNCHANGED command
     ELSE /\ pc' = "ended"
          /\ command' = [command EXCEPT
               !.console = Append(@, "OpenAPI specification file could not be found")]
  /\ Untouched

\* if (options.document || options.patch) { ... }
DocumentOrPatch ==
  /\ pc = "found"
  /\ command' = [command EXCEPT
       !.console = @
         \o (IF command.options.document THEN <<"Documenting operations...">> ELSE <<>>)
         \o (IF command.options.patch THEN <<"Patching operations...">> ELSE <<>>)]
  /\ pc' = "verifying"
  /\ Untouched

\* the verification with the latest specification, and its report
Report ==
  /\ pc = "verifying"
  /\ command' = [command EXCEPT
       !.console = @ \o <<"Verifying API behavior...", "API Behavior Report">>]
  /\ pc' = "reported"
  /\ Untouched

\* if (!options.exit0 && hasDiff) { console.log(...); process.exit(1); }
ExitOutOfSync ==
  /\ pc = "reported"
  /\ ~command.options.exit0
  /\ hasDiff(command.diffResults, command.renderingStatus)
  /\ command' = [command EXCEPT
       !.console = Append(@, "OpenAPI and implementation are out of sync. Exiting 1"),
       !.exitCode = 1]
  /\ pc' = "exited"
  /\ Untouched

\* if (!hasDiff) console.log('No diffs detected. ...'), and the end of the
\* action
Finish ==
  /\ pc = "reported"
  /\ ~(~command.options.exit0 /\ hasDiff(command.diffResults, command.renderingStatus))
  /\ command' = [command EXCEPT
       !.console = @ \o
         (IF ~hasDiff(command.diffResults, command.renderingStatus)
          THEN <<"No diffs detected. OpenAPI and implementation appear to be in sync.">>
          ELSE <<>>)]
  /\ pc' = "ended"
  /\ Untouched

NextVerify == FindSpec \/ DocumentOrPatch \/ Report \/ ExitOutOfSync \/ Finish

SpecVerify == InitVerify /\ [][NextVerify]_vars

\* ------------------------------------------------------------------------
\* What the claims speak about
\* ------------------------------------------------------------------------
Done == pc = "done"

Passes == {"before", "after"}

\* the request rules as declared, each with the ruleset that owns it: read
\* off the rule list, independently of getRequestRules
DeclaredOf(entry) ==
  IF entry.type = "RequestRule"
  THEN <<[rule |-> entry, member |-> FALSE, owner |-> entry]>>
  ELSE IF entry.type = "Ruleset"
  THEN LET members == SelectSeq(entry.rules, LAMBDA r : r.type = "RequestRule")
       IN  [i \in 1..Len(members) |->
              [rule |-> members[i], member |-> TRUE, owner |-> entry]]
  ELSE <<>>

Declared == Flatten([i \in 1..Len(rules) |-> DeclaredOf(rules[i])])

\* the context of a pass
ContextOf(pass) ==
  IF pass = "before"
  THEN createBeforeOperationContext(createOperation(operation, "before"),
                                    customRuleContext)
  ELSE createAfterOperationContext(createOperation(operation, "after"),
                                   customRuleContext, operation.change)

\* the registrations a declared rule makes on a target in a pass
RegsOf(d, pass, target) == callRule(d.rule.rule, ContextOf(pass))[target]

OfKind(regs, kind) == SelectSeq(regs, LAMBDA r : r.kind = kind)

OfType(entries, type) == SelectSeq(entries, LAMBDA t : t.type = type)

Conditions(s) == [i \in 1..Len(s) |-> s[i].condition]

\* the entities of a body node: the body itself (Null) and its property keys
EntityKeys(node) == {Null} \cup {node.fields[i].key : i \in 1..Len(node.fields)}

TargetOf(key) == IF key = Null THEN "body" ELSE "property"

EntityNode(node, key) == IF key = Null THEN node ELSE GetField(node.fields, key)

ExistsIn(node, key, pass) == operation[pass] /\ EntityNode(node, key)[pass] # Null

ChangeOf(node, key) == EntityNode(node, key).change

\* the instance of an entity on one side
InstanceOf(node, key, pass) ==
  IF key = Null THEN createRequest(request, node.contentType, pass)
  ELSE GetProperty(createRequest(request, node.contentType, pass), key)

\* a declared matcher (absent: accepts) applied to the body of a node
Accepts(matcher, node, pass) ==
  matcher = Null
    \/ callMatcher(matcher, createRequest(request, node.contentType, pass),
                   ContextOf(pass))

\* the bodies a declared rule is gated to in a pass
Gated(d, node, pass) ==
  /\ Accepts(d.rule.matches, node, pass)
  /\ d.member => Accepts(d.owner.matches, node, pass)

\* the trace entries of one rule, pass and entity
At(k, pass, node, key) ==
  SelectSeq(trace, LAMBDA t : /\ t.rule = k /\ t.pass = pass
                              /\ t.contentType = node.contentType /\ t.key = key)

BodyNodes == {request.bodies[i] : i \in 1..Len(request.bodies)}

\* P(k, d, node, key) of every declared rule d (the k-th) and every entity
\* of the evaluation whose instance exists in the pass and whose body the
\* rule is gated to
ForEvaluated(declared, pass, P(_, _, _, _)) ==
  \A k \in 1..Len(declared) : \A node \in BodyNodes :
    (ExistsIn(node, Null, pass) /\ Gated(declared[k], node, pass)) =>
      \A key \in EntityKeys(node) :
        ExistsIn(node, key, pass) => P(k, declared[k], node, key)

SomeEvaluated(declared, pass, P(_, _, _, _)) ==
  \E k \in 1..Len(declared) : \E node \in BodyNodes :
    /\ ExistsIn(node, Null, pass) /\ Gated(declared[k], node, pass)
    /\ \E key \in EntityKeys(node) :
         ExistsIn(node, key, pass) /\ P(k, declared[k], node, key)

\* ------------------------------------------------------------------------
\* C1
\* ------------------------------------------------------------------------
StatedBeforePass(ran, regs, change) ==
  /\ Conditions(OfType(ran, "requirement")) = Conditions(OfKind(regs, "requirement"))
  /\ change # "removed" => OfType(ran, "removed") = <<>>

StatedBeforePassOf(k, d, node, key) ==
  StatedBeforePass(At(k, "before", node, key), RegsOf(d, "before", TargetOf(key)),
                   ChangeOf(node, key))

\* C1 as stated: in the before-pass, for every before-instance that passes
\* the matcher, every registered requirement assertion is executed against
\* it whatever the classification, and removed assertions are executed only
\* when the classification is Removed.
C1_Original == Done => ForEvaluated(Declared, "before", StatedBeforePassOf)

RemovedOnly(ran, regs, change, instance) ==
  /\ \A i \in 1..Len(ran) : ran[i].type = "removed" /\ ran[i].args = <<instance>>
  /\ Conditions(ran) = IF change = "removed"
                       THEN Conditions(OfKind(regs, "removed")) ELSE <<>>

RemovedOnlyOf(k, d, node, key) ==
  RemovedOnly(At(k, "before", node, key), RegsOf(d, "before", TargetOf(key)),
              ChangeOf(node, key), InstanceOf(node, key, "before"))

\* C1 as amended: in the before-pass, for every before-instance that passes
\* the matcher, no requirement (nor added, nor changed) assertion is
\* executed; the removed assertions are executed, each once, in registration
\* order and against the before-instance, exactly when the classification is
\* Removed.
C1_BeforePassRunsRemovedOnly == Done => ForEvaluated(Declared, "before", RemovedOnlyOf)

RemovedPropertyOfKeptBody(k, d, node, key) ==
  /\ key # Null /\ ChangeOf(node, key) = "removed"
  /\ Len(At(k, "before", node, key)) >= 2
  /\ ChangeOf(node, Null) = Null
  /\ OfKind(RegsOf(d, "before", "body"), "requirement") # <<>>
  /\ At(k, "before", node, Null) = <<>>

\* C1 witness: a before-pass in which a removed property had its removed
\* assertions run while the body that holds it, kept and unchanged, had a
\* requirement registered and nothing run.
C1_Witness == Done /\ SomeEvaluated(Declared, "before", RemovedPropertyOfKeptBody)

\* ------------------------------------------------------------------------
\* C2
\* ------------------------------------------------------------------------
\* the before and after documents are identical
Identical ==
  /\ operation.before /\ operation.after
  /\ \A node \in BodyNodes : \A key \in EntityKeys(node) : ChangeOf(node, key) = Null

\* the trace entries of the invocations of one body predicate of one rule
InvocationsOf(k, reg) ==
  SelectSeq(trace, LAMBDA t : /\ t.rule = k /\ t.key = Null
                              /\ t.type = reg.kind /\ t.condition = reg.condition)

InvokedOnceWith(invocations, instance) ==
  Len(invocations) = 1 /\ invocations[1].args = <<instance>>

RequirementsInvokedOnce(k, regs, node) ==
  \A i \in 1..Len(regs) :
    InvokedOnceWith(InvocationsOf(k, regs[i]), InstanceOf(node, Null, "after"))

\* the matcher of the declared rule accepts the body of the node and no other
OnlyGatedTo(d, node) == {n \in BodyNodes : Gated(d, n, "after")} = {node}

InvokedOnceOf(declared) ==
  \A k \in 1..Len(declared) : \A node \in BodyNodes :
    OnlyGatedTo(declared[k], node) =>
      RequirementsInvokedOnce(
        k, OfKind(RegsOf(declared[k], "after", "body"), "requirement"), node)

\* C2: when the before and after documents are identical and the matcher of
\* a request rule accepts exactly one request body, a predicate registered
\* with body.requirement is invoked exactly once in the whole evaluation,
\* and its argument is the matched body.
C2_RequirementInvokedOnce == (Done /\ Identical) => InvokedOnceOf(Declared)

MatchedOneOfTwo(declared) ==
  \E k \in 1..Len(declared) : \E node \in BodyNodes :
    /\ OnlyGatedTo(declared[k], node)
    /\ declared[k].rule.matches # Null
    /\ OfType(At(k, "after", node, Null), "requirement") # <<>>

\* C2 witness: identical documents with two bodies, a rule whose matcher
\* accepts one of them, and its requirement predicate invoked.
C2_Witness ==
  /\ Done /\ Identical /\ Len(request.bodies) = 2
  /\ MatchedOneOfTwo(Declared)

\* ------------------------------------------------------------------------
\* C3
\* ------------------------------------------------------------------------
AfterLifecycle(ran, regs, change, before, after) ==
  /\ Conditions(OfType(ran, "requirement")) = Conditions(OfKind(regs, "requirement"))
  /\ Conditions(OfType(ran, "added"))
       = IF change = "added" THEN Conditions(OfKind(regs, "added")) ELSE <<>>
  /\ Conditions(OfType(ran, "changed"))
       = IF change = "changed" THEN Conditions(OfKind(regs, "changed")) ELSE <<>>
  /\ \A i \in 1..Len(ran) :
       /\ ran[i].type # "removed"
       /\ ran[i].args = IF ran[i].type = "changed" THEN <<before, after>>
                        ELSE <<after>>

AfterLifecycleOf(k, d, node, key) ==
  AfterLifecycle(At(k, "after", node, key), RegsOf(d, "after", TargetOf(key)),
                 ChangeOf(node, key), InstanceOf(node, key, "before"),
                 InstanceOf(node, key, "after"))

\* C3: in the after-pass, for every after-instance that passes the matcher,
\* the requirement assertions are executed against the after-instance
\* whatever the classification, the added assertions only when it is Added
\* (also when the whole operation is new), and the changed assertions only
\* when it is Changed, with the before- and the after-instance.
C3_AfterPassLifecycle == Done => ForEvaluated(Declared, "after", AfterLifecycleOf)

ChangedWithBoth(ran) ==
  \E i \in 1..Len(ran) : ran[i].type = "changed" /\ Len(ran[i].args) = 2

AddedPropertyOfChangedBody(k, d, node, key) ==
  /\ key # Null /\ ChangeOf(node, key) = "added"
  /\ OfType(At(k, "after", node, key), "added") # <<>>
  /\ OfType(At(k, "after", node, key), "requirement") # <<>>
  /\ ChangeOf(node, Null) = "changed"
  /\ ChangedWithBoth(At(k, "after", node, Null))

\* C3 witness: an after-pass over a changed body holding an added property:
\* the changed assertions ran on the body with both instances, the added
\* ones on the property.
C3_Witness == Done /\ SomeEvaluated(Declared, "after", AddedPropertyOfChangedBody)

\* ------------------------------------------------------------------------
\* C4
\* ------------------------------------------------------------------------
Kinds == {"requirement", "added", "changed", "removed"}

\* the lifecycle kinds that apply to an entity in a pass
Applies(kind, pass, change) ==
  IF pass = "before" THEN kind = "removed" /\ change = "removed"
  ELSE \/ kind = "requirement"
       \/ kind = "added" /\ change = "added"
       \/ kind = "changed" /\ change = "changed"

\* the positions in the Result list of the Results of one rule, pass, entity
\* and lifecycle kind
ResultsOf(k, pass, node, key, kind) ==
  {i \in 1..Len(trace) : /\ trace[i].rule = k /\ trace[i].pass = pass
                         /\ trace[i].contentType = node.contentType
                         /\ trace[i].key = key /\ trace[i].type = kind}

\* the arguments a predicate of a kind receives for an entity
ArgsOf(node, key, kind) ==
  CASE kind = "removed" -> <<InstanceOf(node, key, "before")>>
    [] kind = "changed" -> <<InstanceOf(node, key, "before"),
                             InstanceOf(node, key, "after")>>
    [] OTHER -> <<InstanceOf(node, key, "after")>>

\* the Results at the positions are those of the registrations, one each
OneResultEach(positions, regs, args) ==
  /\ Cardinality(positions) = Len(regs)
  /\ \A j \in 1..Len(regs) :
       \E i \in positions :
         /\ results[i].condition = regs[j].condition
         /\ results[i].passed = invoke(regs[j].predicate, args).passed
         /\ \A h \in positions : results[h].condition = regs[j].condition => h = i

OneResultEachOf(pass, k, d, node, key) ==
  \A kind \in Kinds :
    IF Applies(kind, pass, ChangeOf(node, key))
    THEN OneResultEach(ResultsOf(k, pass, node, key, kind),
                       OfKind(RegsOf(d, pass, TargetOf(key)), kind),
                       ArgsOf(node, key, kind))
    ELSE ResultsOf(k, pass, node, key, kind) = {}

OneResultEachBefore(k, d, node, key) == OneResultEachOf("before", k, d, node, key)

OneResultEachAfter(k, d, node, key) == OneResultEachOf("after", k, d, node, key)

\* C4: for every rule, entity and pass, the N assertions registered for a
\* lifecycle kind that applies there yield exactly N Results, one per
\* assertion with that assertion's own outcome, a failed assertion not
\* stopping the later ones; a kind that does not apply yields none.
C4_OneResultPerAssertion ==
  Done =>
    /\ Len(results) = Len(trace)
    /\ ForEvaluated(Declared, "before", OneResultEachBefore)
    /\ ForEvaluated(Declared, "after", OneResultEachAfter)

\* C4 witness: two assertions of one kind on one body in one pass, the first
\* failed and the second, reported after it, passed.
C4_Witness ==
  /\ Done
  /\ \E i \in 1..Len(trace) : \E j \in 1..Len(trace) :
       /\ i < j
       /\ trace[i].rule = trace[j].rule /\ trace[i].pass = trace[j].pass
       /\ trace[i].contentType = trace[j].contentType
       /\ trace[i].key = Null /\ trace[j].key = Null
       /\ trace[i].type = trace[j].type
       /\ ~results[i].passed /\ results[j].passed

\* ------------------------------------------------------------------------
\* C5
\* ------------------------------------------------------------------------
\* the flattened rule has a matcher and it returns false for the body of
\* the node in the pass
Rejected(flat, node, pass) ==
  /\ ExistsIn(node, Null, pass)
  /\ ~IsUndefined(flat.matches)
  /\ ~callMatches(flat.matches, createRequest(request, node.contentType, pass),
                  ContextOf(pass))

\* some Result of rule k was pushed for the body of the node, or for one of
\* its properties, in the pass
RanOn(k, node, pass) ==
  \E i \in 1..Len(trace) :
    /\ trace[i].rule = k /\ trace[i].pass = pass
    /\ trace[i].contentType = node.contentType

GatedByMatcher(declared) ==
  \A k \in 1..Len(requestRules) : \A node \in BodyNodes : \A pass \in Passes :
    /\ Rejected(requestRules[k], node, pass) => ~RanOn(k, node, pass)
    /\ (/\ pass = "after"
        /\ ExistsIn(node, Null, pass)
        /\ ~Rejected(requestRules[k], node, pass)
        /\ OfKind(RegsOf(declared[k], pass, "body"), "requirement") # <<>>)
         => At(k, pass, node, Null) # <<>>

\* C5: if the matcher of a rule returns false for a request body in a pass,
\* no Result is emitted for that rule and body in that pass (nor for its
\* properties), whatever the rule registered; a body of another content
\* type that the matcher accepts is still evaluated.
C5_MatcherGating == Done => GatedByMatcher(Declared)

RejectedNextToAccepted(declared) ==
  \E k \in 1..Len(requestRules) : \E node \in BodyNodes : \E other \in BodyNodes :
    /\ Rejected(requestRules[k], node, "after")
    /\ OfKind(RegsOf(declared[k], "after", "body"), "requirement") # <<>>
    /\ ~Rejected(requestRules[k], other, "after")
    /\ At(k, "after", other, Null) # <<>>
    /\ ~RanOn(k, node, "after")

\* C5 witness: a rule that registered a requirement, one body its matcher
\* rejected, with no Result, and another body it accepted, with Results.
C5_Witness == Done /\ RejectedNextToAccepted(Declared)

\* ------------------------------------------------------------------------
\* C6
\* ------------------------------------------------------------------------
AliasOf(d) == d.owner.name \o " > " \o d.rule.name

StatedNames(declared) ==
  \A i \in 1..Len(results) :
    results[i].name = IF declared[trace[i].rule].member
                      THEN AliasOf(declared[trace[i].rule])
                      ELSE declared[trace[i].rule].rule.name

OwnNames(declared) ==
  /\ \A i \in 1..Len(results) :
       /\ results[i].name = declared[trace[i].rule].rule.name
       /\ declared[trace[i].rule].member
            => results[i].name # AliasOf(declared[trace[i].rule])
  /\ \A k \in 1..Len(requestRules) :
       declared[k].member => requestRules[k].aliases = <<AliasOf(declared[k])>>

MemberResult(declared) ==
  \E i \in 1..Len(results) :
    /\ declared[trace[i].rule].member
    /\ declared[trace[i].rule].owner.name = "Breaking Changes"
    /\ results[i].name = "no-required-removal"

BothAccept(d, node, pass) ==
  /\ Accepts(d.rule.matches, node, pass)
  /\ d.member => Accepts(d.owner.matches, node, pass)

MatchersConjoined(declared) ==
  \A k \in 1..Len(declared) : \A node \in BodyNodes : \A pass \in Passes :
    ExistsIn(node, Null, pass) =>
      /\ RanOn(k, node, pass) => BothAccept(declared[k], node, pass)
      /\ (/\ pass = "after"
          /\ OfKind(RegsOf(declared[k], pass, "body"), "requirement") # <<>>
          /\ BothAccept(declared[k], node, pass))
           => RanOn(k, node, pass)

\* C7: the assertions of a member of a ruleset run for an instance only if
\* the matcher of the ruleset and the rule's own matcher both accept it, an
\* absent matcher accepting; a standalone rule is gated by its own matcher
\* only.
C7_RulesetMatcherConjoined == Done => MatchersConjoined(Declared)

RulesetRejects(declared) ==
  \E k \in 1..Len(declared) : \E h \in 1..Len(declared) : \E node \in BodyNodes :
    /\ ExistsIn(node, Null, "after")
    /\ declared[k].member
    /\ Accepts(declared[k].rule.matches, node, "after")
    /\ ~Accepts(declared[k].owner.matches, node, "after")
    /\ ~RanOn(k, node, "after")
    /\ ~declared[h].member
    /\ declared[h].rule.matches = Null
    /\ RanOn(h, node, "after")

\* C7 witness: a member rule whose own matcher accepts a body that the
\* matcher of its ruleset rejects, so that nothing ran on it, next to a
\* standalone rule without matcher that ran on the same body.
C7_Witness == Done /\ RulesetRejects(Declared)

\* ------------------------------------------------------------------------
\* C8
\* ------------------------------------------------------------------------
HasDocsLink(r) == r.docsLink # Null /\ r.docsLink # ""

\* the docs link a declared rule is to report
ResolvedDocsLink(d) ==
  IF ~d.member THEN d.rule.docsLink
  ELSE IF HasDocsLink(d.rule) THEN d.rule.docsLink
  ELSE d.owner.docsLink

DocsLinksOf(declared) ==
  \A i \in 1..Len(results) :
    results[i].docsLink = ResolvedDocsLink(declared[trace[i].rule])

\* C8: the docs link of a Result is the own docs link of its rule when the
\* rule has one, otherwise that of the ruleset that owns the rule, otherwise
\* absent; a standalone rule never gets a docs link from a ruleset.
C8_DocsLinkFallback == Done => DocsLinksOf(Declared)

FallbackAndNone(declared) ==
  \E i \in 1..Len(results) : \E j \in 1..Len(results) :
    /\ declared[trace[i].rule].member
    /\ ~HasDocsLink(declared[trace[i].rule].rule)
    /\ results[i].docsLink = "https://docs/breaking-changes"
    /\ ~declared[trace[j].rule].member
    /\ results[j].docsLink = Null

\* C8 witness: a Result of a member rule without docs link carrying the
\* link of its ruleset, and a Result of a standalone rule without docs link
\* carrying none.
C8_Witness == Done /\ FallbackAndNone(Declared)

\* ------------------------------------------------------------------------
\* C9
\* ------------------------------------------------------------------------
FlattenedAs(declared) ==
  /\ Len(requestRules) = Len(declared)
  /\ \A k \in 1..Len(requestRules) :
       /\ requestRules[k].name = declared[k].rule.name
       /\ requestRules[k].rule = declared[k].rule.rule
       /\ ~declared[k].member => requestRules[k].aliases = <<>>
       /\ declared[k].member => requestRules[k].aliases # <<>>
  /\ \A i \in 1..Len(results) :
       /\ trace[i].rule \in 1..Len(requestRules)
       /\ results[i].name = requestRules[trace[i].rule].name
       /\ results[i].name # OperationId.name

\* C9: the flattened rules are the request rules in declaration order, each
\* ruleset expanded in place; standalone rules have no alias; rules of
\* another kind, standalone or in a ruleset, are left out and produce no
\* request Result.
C9_FlattenInDeclarationOrder == Done => FlattenedAs(Declared)

\* C9 witness: a ruleset holding a rule of another kind, declared ahead of
\* a standalone request rule, and Results of both.
C9_Witness ==
  /\ Done
  /\ Len(rules) = 2
  /\ rules[1].type = "Ruleset" /\ rules[2].type = "RequestRule"
  /\ \E m \in 1..Len(rules[1].rules) : rules[1].rules[m].type = "OperationRule"
  /\ \E i \in 1..Len(trace) : trace[i].rule = 1
  /\ \E i \in 1..Len(trace) : trace[i].rule = Len(requestRules)

\* ------------------------------------------------------------------------
\* C10
\* ------------------------------------------------------------------------
IndexOfBody(bodies, contentType) ==
  CHOOSE i \in 1..Len(bodies) : bodies[i].contentType = contentType

IndexOfEntity(fields, key) ==
  IF key = Null THEN 0
  ELSE CHOOSE i \in 1..Len(fields) : fields[i].key = key

\* where a Result was pushed: rule, pass, content type, entity
PlaceOf(t) ==
  <<t.rule, IF t.pass = "before" THEN 0 ELSE 1,
    IndexOfBody(request.bodies, t.contentType),
    IndexOfEntity(GetBody(request.bodies, t.contentType).fields, t.key)>>

\* lexicographic order on places
NotAfter(a, b) ==
  \/ a = b
  \/ \E n \in 1..4 : a[n] < b[n] /\ \A m \in 1..(n - 1) : a[m] = b[m]

InOrder(places) ==
  \A i \in 1..(Len(places) - 1) : NotAfter(places[i], places[i + 1])

\* C10: the Results are in rule declaration order; for each rule every
\* before-pass Result comes ahead of every after-pass Result; within a pass
\* the content types and the properties are visited in insertion order, the
\* Results of a body ahead of those of its properties.
C10_ResultOrder ==
  Done => InOrder([i \in 1..Len(trace) |-> PlaceOf(trace[i])])

\* C10 witness: two rules with Results, the first with Results of both
\* passes, and in one pass a Result of a body followed by one of its
\* properties.
C10_Witness ==
  /\ Done
  /\ \E a \in 1..Len(trace) : \E b \in 1..Len(trace) :
     \E c \in 1..Len(trace) : \E d \in 1..Len(trace) :
       /\ a < b /\ b < d
       /\ trace[a].rule = 1 /\ trace[a].pass = "before"
       /\ trace[b].rule = 1 /\ trace[b].pass = "after"
       /\ b <= c /\ c < d
       /\ trace[c].rule = 1 /\ trace[c].pass = "after" /\ trace[c].key = Null
       /\ trace[d].rule = 1 /\ trace[d].pass = "after" /\ trace[d].key # Null
       /\ trace[c].contentType = trace[d].contentType
  /\ \E e \in 1..Len(trace) : trace[e].rule = 2

\* ------------------------------------------------------------------------
\* C11
\* ------------------------------------------------------------------------
\* the predicate behind a trace entry: the registration of its kind and
\* condition on its target
PredicateOf(declared, t) ==
  LET regs == RegsOf(declared[t.rule], t.pass, TargetOf(t.key))
  IN  regs[CHOOSE i \in 1..Len(regs) :
             regs[i].kind = t.type /\ regs[i].condition = t.condition].predicate

\* what a Result is to report for its predicate: a throw gives passed =
\* FALSE and the message thrown, a normal return passed = TRUE and no error
Reports(result, predicate) ==
  /\ predicate = "throws" => ~result.passed /\ result.error = "rule error"
  /\ predicate = "crashes" => ~result.passed /\ result.error = "TypeError"
  /\ predicate = "ok" => result.passed /\ result.error = Null
  /\ result.passed <=> result.error = Null

\* the assertions of the kind of entry i registered after it have their
\* Results right after it, in registration order
RunGoesOn(declared, i) ==
  LET t == trace[i]
      later == OfKind(RegsOf(declared[t.rule], t.pass, TargetOf(t.key)), t.type)
      at == CHOOSE n \in 1..Len(later) : later[n].condition = t.condition
  IN  \A n \in (at + 1)..Len(later) :
        /\ i + (n - at) <= Len(trace)
        /\ trace[i + (n - at)].condition = later[n].condition
        /\ trace[i + (n - at)].rule = t.rule
        /\ trace[i + (n - at)].key = t.key

OwnOutcomes(declared) ==
  \A i \in 1..Len(results) :
    /\ Reports(results[i], PredicateOf(declared, trace[i]))
    /\ ~results[i].passed => RunGoesOn(declared, i)

\* C11: every executed predicate yields its own Result: one that throws, a
\* RuleError or any other exception, yields passed = FALSE with the thrown
\* message as error and the run goes on with the next assertion; one that
\* returns yields passed = TRUE without error; a Result without error is a
\* passed Result.
C11_OwnOutcomePerPredicate == Done => OwnOutcomes(Declared)

CrashThenPass(declared) ==
  \E i \in 1..(Len(results) - 1) :
    /\ PredicateOf(declared, trace[i]) = "crashes"
    /\ results[i].error = "TypeError"
    /\ trace[i].key # Null
    /\ trace[i + 1].rule = trace[i].rule /\ trace[i + 1].key = trace[i].key
    /\ trace[i + 1].type = trace[i].type
    /\ results[i + 1].passed /\ results[i + 1].error = Null

\* C11 witness: a predicate on a property that throws something other than
\* a RuleError, reported as failed with its message, and the next assertion
\* of the kind on the same property reported as passed.
C11_Witness == Done /\ CrashThenPass(Declared)

\* ------------------------------------------------------------------------
\* C12
\* ------------------------------------------------------------------------
\* the calls of the body of the k-th flattened rule in a pass
CallsIn(k, pass) == SelectSeq(calls, LAMBDA c : c.rule = k /\ c.pass = pass)

\* one call, with the context of the pass and a collector that holds what
\* this call registered and nothing else
OnceFresh(made, d, pass) ==
  /\ Len(made) = 1
  /\ made[1].context = ContextOf(pass)
  /\ made[1].collector = callRule(d.rule.rule, ContextOf(pass))

StatedCalls(declared) ==
  \A k \in 1..Len(declared) : \A pass \in Passes :
    OnceFresh(CallsIn(k, pass), declared[k], pass)

\* C12 as stated: for every rule and fact visited, the rule body is called
\* exactly once with a fresh collector and the before-context and exactly
\* once more with a fresh collector and the after-context, whether or not
\* the operation or the entity exists on that side and however many content
\* types or properties the fact has.
C12_Original == Done => StatedCalls(Declared)

\* the position of the only call of a rule in a pass
CallAt(k, pass) ==
  CHOOSE i \in 1..Len(calls) : calls[i].rule = k /\ calls[i].pass = pass

CalledPerSide(declared) ==
  /\ \A k \in 1..Len(declared) : \A pass \in Passes :
       IF operation[pass]
       THEN OnceFresh(CallsIn(k, pass), declared[k], pass)
       ELSE CallsIn(k, pass) = <<>>
  /\ \A k \in 1..Len(declared) :
       (operation.before /\ operation.after)
         => CallAt(k, "before") < CallAt(k, "after")
  /\ \A i \in 1..Len(calls) : calls[i].rule \in 1..Len(declared)

\* C12 as amended: for every rule and fact visited, the rule body is called
\* exactly once with a fresh collector and the before-context when the
\* operation exists in the before document, and exactly once more, later,
\* with a fresh collector and the after-context when the operation exists
\* in the after document; on a side where the operation does not exist the
\* body is not called; whether the bodies and properties exist on a side,
\* and how many content types or properties the fact has, makes no
\* difference.
C12_RuleBodyCalledOncePerSide == Done => CalledPerSide(Declared)

\* C12 witness: an operation kept on both sides whose request has two
\* content types, both added, and a rule called once with each context.
C12_Witness ==
  /\ Done
  /\ operation.before /\ operation.after
  /\ Len(request.bodies) = 2
  /\ \A node \in BodyNodes : node.before = Null
  /\ Len(requestRules) >= 1
  /\ Len(CallsIn(1, "before")) = 1 /\ Len(CallsIn(1, "after")) = 1
  /\ \E i \in 1..Len(trace) : trace[i].rule = 1

\* ------------------------------------------------------------------------
\* C13
\* ------------------------------------------------------------------------
\* the calls of the executor for one rule, pass and entity
VisitsAt(k, pass, node, key) ==
  SelectSeq(visits, LAMBDA v : /\ v.rule = k /\ v.pass = pass
                               /\ v.contentType = node.contentType /\ v.key = key)

\* the instance of an entity on a side, or the null instance of its kind
InstanceOrNull(node, key, pass) ==
  IF ExistsIn(node, Null, pass) /\ ExistsIn(node, key, pass)
  THEN InstanceOf(node, key, pass)
  ELSE IF key = Null THEN NullRequest ELSE NullField

\* one call, with the instance of the entity on the side of the pass, the
\* change of the entity and, in the after-pass, its before-instance
OwnVisit(made, node, key, pass) ==
  /\ Len(made) = 1
  /\ made[1][pass] = InstanceOf(node, key, pass)
  /\ made[1].change = ChangeOf(node, key)
  /\ pass = "after" => made[1].before = InstanceOrNull(node, key, "before")

EvaluatedWherePresent(declared) ==
  \A k \in 1..Len(declared) : \A node \in BodyNodes : \A pass \in Passes :
    \A key \in EntityKeys(node) :
      IF /\ ExistsIn(node, Null, pass) /\ ExistsIn(node, key, pass)
         /\ Gated(declared[k], node, pass)
      THEN OwnVisit(VisitsAt(k, pass, node, key), node, key, pass)
      ELSE VisitsAt(k, pass, node, key) = <<>>

\* C13: every content type and every property key present in either
\* version of the request is evaluated by every rule whose matcher accepts
\* the body: in the before-pass when it is present before, in the
\* after-pass when it is present after, in both when it is present in both;
\* the before-instance and the change paired with an after-property are
\* those of the same key, whatever its position.
C13_EvaluatedWherePresent == Done => EvaluatedWherePresent(Declared)

MovedProperty(declared) ==
  \E k \in 1..Len(declared) : \E node \in BodyNodes :
    /\ Len(node.fields) = 2
    /\ node.fields[1].after = Null
    /\ node.fields[2].change = "changed"
    /\ Len(VisitsAt(k, "before", node, node.fields[1].key)) = 1
    /\ VisitsAt(k, "after", node, node.fields[1].key) = <<>>
    /\ Len(VisitsAt(k, "after", node, node.fields[2].key)) = 1
    /\ VisitsAt(k, "after", node, node.fields[2].key)[1].before.key
         = node.fields[2].key
    /\ Len(VisitsAt(k, "before", node, node.fields[2].key)) = 1

\* C13 witness: a body whose first property was removed and whose second
\* was kept with another schema: the first evaluated in the before-pass
\* only, the second in both, its after-pass call given the before-instance
\* of its own key, which stands at another position there.
C13_Witness == Done /\ MovedProperty(Declared)

\* ------------------------------------------------------------------------
\* C14
\* ------------------------------------------------------------------------
Evaluated == pc = "evaluated"

\* the evaluations a runner has made, the latest last
Evaluations ==
  IF Evaluated
  THEN Append(earlier, [operation |-> operation, request |-> request,
                        results |-> results])
  ELSE earlier

SameDocuments(a, b) == a.operation = b.operation /\ a.request = b.request

RepeatsAgree(made) ==
  \A i \in 1..Len(made) : \A j \in (i + 1)..Len(made) :
    SameDocuments(made[i], made[j]) =>
      /\ Len(made[i].results) = Len(made[j].results)
      /\ \A n \in 1..Len(made[i].results) : made[i].results[n] = made[j].results[n]

RepeatedWithResults(made) ==
  \E i \in 1..Len(made) : \E j \in (i + 1)..Len(made) :
    /\ SameDocuments(made[i], made[j])
    /\ Len(made[j].results) >= 2
    /\ \E n \in 1..Len(made[j].results) : ~made[j].results[n].passed

OwnResults(endpoint, requestNode, ruleList) ==
  LET pushed == PushedOf(runRequestRules(endpoint, requestNode, ruleList))
  IN  [i \in 1..Len(pushed) |-> pushed[i].result]

\* C15: a RuleRunner keeps nothing between calls: the Result list of an
\* evaluation is the one its own rules, documents and custom context give,
\* whatever the runner evaluated before.
C15_RunnerStateless ==
  Evaluated => results = OwnResults(operation, request, rules)

\* C15 witness: an evaluation whose Results all passed, followed on the
\* same runner by an evaluation of other documents whose Results all failed.
C15_Witness ==
  /\ Evaluated
  /\ earlier # <<>>
  /\ ~SameDocuments(earlier[Len(earlier)],
                    [operation |-> operation, request |-> request])
  /\ earlier[Len(earlier)].results # <<>>
  /\ \A n \in 1..Len(earlier[Len(earlier)].results) :
       earlier[Len(earlier)].results[n].passed
  /\ results # <<>>
  /\ \A n \in 1..Len(results) : ~results[n].passed

\* ------------------------------------------------------------------------
\* C16
\* ------------------------------------------------------------------------
\* the places in the Result list of one rule, pass and entity
PlacesAt(k, pass, node, key) ==
  {i \in 1..Len(trace) : /\ trace[i].rule = k /\ trace[i].pass = pass
                         /\ trace[i].contentType = node.contentType
                         /\ trace[i].key = key}

\* the Results of the removal rule for a removed body: at least one, each
\* of a removed assertion run on the before-instance, passed unless the
\* body was an array
RemovalReported(places, node) ==
  /\ places # {}
  /\ \A i \in places :
       /\ trace[i].type = "removed"
       /\ trace[i].args = <<InstanceOf(node, Null, "before")>>
       /\ results[i].passed <=> flatSchemaType(node.before) # "array"

RemovedBodies(declared) ==
  \A node \in BodyNodes :
    (/\ operation.before /\ operation.after
     /\ node.before # Null /\ node.after = Null) =>
      \A k \in 1..Len(declared) :
        /\ declared[k].rule.rule = "requestRemoval"
             => RemovalReported(PlacesAt(k, "before", node, Null), node)
        /\ \A key \in EntityKeys(node) : PlacesAt(k, "after", node, key) = {}

\* C16: when a request body is present before and absent after while its
\* operation is kept, a body.removed assertion runs against the
\* before-instance and yields at least one Result, every one passed when
\* the predicate accepts the removed body (of type string) and failed when
\* it rejects it (of type array); no rule has an after-pass Result for the
\* removed body.
C16_RemovedBodyReported == Evaluated => RemovedBodies(Declared)

\* C16 witness: a runner with the removal rule alone that reported the
\* removal of a body of type string as passed and then the removal of a
\* body of type array as failed.
C16_Witness ==
  /\ Evaluated
  /\ rules = <<RequestRemoval>>
  /\ earlier # <<>>
  /\ earlier[Len(earlier)].operation = operation
  /\ Len(earlier[Len(earlier)].request.bodies) = 1
  /\ earlier[Len(earlier)].request.bodies[1].before = "string"
  /\ earlier[Len(earlier)].request.bodies[1].after = Null
  /\ Len(earlier[Len(earlier)].results) = 1
  /\ earlier[Len(earlier)].results[1].passed
  /\ operation.after
  /\ Len(request.bodies) = 1
  /\ request.bodies[1].before = "array" /\ request.bodies[1].after = Null
  /\ Len(results) = 1
  /\ ~results[1].passed /\ trace[1].pass = "before"

\* ------------------------------------------------------------------------
\* C17
\* ------------------------------------------------------------------------
\* the Results of the property type rule for a changed property: at least
\* one, each of a changed assertion given the before- and the
\* after-instance of the property, passed exactly when the type is the same
ChangeReported(places, node, key) ==
  /\ places # {}
  /\ \A i \in places :
       /\ trace[i].type = "changed"
       /\ trace[i].args = <<InstanceOf(node, key, "before"),
                            InstanceOf(node, key, "after")>>
       /\ trace[i].args[1].key = key /\ trace[i].args[2].key = key
       /\ results[i].passed <=>
            flatSchemaType(GetField(node.fields, key).before)
              = flatSchemaType(GetField(node.fields, key).after)

ChangedProperties(declared) ==
  \A node \in BodyNodes : \A key \in EntityKeys(node) \ {Null} :
    (/\ operation.before /\ operation.after
     /\ node.before # Null /\ node.after # Null
     /\ ChangeOf(node, key) = "changed") =>
      \A k \in 1..Len(declared) :
        declared[k].rule.rule = "propertyType"
          => ChangeReported(PlacesAt(k, "after", node, key), node, key)

\* C17: when a property of a request body is present in both versions and
\* classified Changed, a property.changed assertion is invoked with the
\* before- and the after-instance of that property and yields at least one
\* Result; with a predicate that compares the types, every Result is failed
\* when the type differs (string to number) and passed when only the format
\* differs (uuid to date).
C17_ChangedPropertyReported == Evaluated => ChangedProperties(Declared)

\* C17 witness: a runner with the property type rule alone that reported
\* the change of format of a property as passed and then the change of
\* type of that property as failed.
C17_Witness ==
  /\ Evaluated
  /\ rules = <<PropertyType>>
  /\ earlier # <<>>
  /\ Len(earlier[Len(earlier)].request.bodies) = 1
  /\ Len(earlier[Len(earlier)].request.bodies[1].fields) = 1
  /\ earlier[Len(earlier)].request.bodies[1].fields[1].after = "string:date"
  /\ Len(earlier[Len(earlier)].results) = 1
  /\ earlier[Len(earlier)].results[1].passed
  /\ Len(request.bodies) = 1
  /\ Len(request.bodies[1].fields) = 1
  /\ request.bodies[1].fields[1].before = "string:uuid"
  /\ request.bodies[1].fields[1].after = "number"
  /\ Len(results) = 1
  /\ ~results[1].passed /\ trace[1].pass = "after" /\ trace[1].key = "hello"

\* ------------------------------------------------------------------------
\* C18
\* ------------------------------------------------------------------------
Checked == pc = "checked"

\* the properties the example takes away
Gone == SelectSeq(example.properties, LAMBDA q : q.removed)

\* the failing and the passing example of the check
RemovingRequired ==
  Scenario("inResponse", <<SchemaProperty("lookAtMe", TRUE, TRUE)>>)

RemovingOptional ==
  Scenario("inResponse", <<SchemaProperty("lookAtMe", FALSE, TRUE)>>)

OneResultPerRemoved(gone) ==
  /\ Len(results) = Len(gone)
  /\ \A i \in 1..Len(gone) :
       /\ results[i].passed <=>
            ~(example.location = "inResponse" /\ gone[i].required)
       /\ results[i].passed <=> results[i].error = Null
  /\ (Len(gone) = 1 /\ gone[1].required /\ example.location = "inResponse")
       => (Len(results) = 1 /\ ~results[1].passed)
  /\ (\A i \in 1..Len(gone) : ~gone[i].required)
       => \A i \in 1..Len(results) : results[i].passed

\* C18: the check 'required properties in response should not be removed'
\* yields exactly one Result, failed, when the body schema of a response
\* loses a property listed in required, and passed Results when the removed
\* property was not required; the predicate fails only for a property that
\* is both in a response and required.
C18_RequiredResponseProperty == Checked => OneResultPerRemoved(Gone)

\* C18 witness: the failing example of the check, with its one failed
\* Result.
C18_Witness ==
  /\ Checked
  /\ example = RemovingRequired
  /\ Len(results) = 1 /\ ~results[1].passed
  /\ results[1].error = "removing required property 'lookAtMe' is a breaking change"

\* ------------------------------------------------------------------------
\* C19
\* ------------------------------------------------------------------------
\* the rule of the runner that was declared under a name
DeclaredAs(name) ==
  CHOOSE rule \in {rules[k] : k \in 1..Len(rules)} : rule.name = name

\* the flags of a Result say the tier its rule was declared with
FlagsSayTier(result, rule) ==
  /\ result.isMust <=> TierOf(rule) = "must"
  /\ result.isShould <=> TierOf(rule) = "should"

\* C19: the severity flags of every Result equal the tier its rule declares,
\* must when it declares none: a rule declared as should yields Results with
\* isShould = TRUE and isMust = FALSE.
C19_Original ==
  Evaluated =>
    \A i \in 1..Len(results) : FlagsSayTier(results[i], DeclaredAs(results[i].name))

\* C19 witness: a rule declared as should has yielded a Result, and the
\* Result says must.
C19_Witness ==
  /\ Evaluated
  /\ \E i \in 1..Len(results) :
       /\ TierOf(DeclaredAs(results[i].name)) = "should"
       /\ results[i].isMust /\ ~results[i].isShould

\* ------------------------------------------------------------------------
\* C20
\* ------------------------------------------------------------------------
OneTier(result) == ~(result.isMust /\ result.isShould)

\* C20: no Result has both isMust and isShould true.
C20_NeverBothTiers == Done => \A i \in 1..Len(results) : OneTier(results[i])

\* C20 witness: a run that reported on a body and on a property; each
\* Result has exactly the flag isMust.
C20_Witness ==
  /\ Done
  /\ \E i, j \in 1..Len(results) : trace[i].key = Null /\ trace[j].key # Null
  /\ \A i \in 1..Len(results) : results[i].isMust /\ ~results[i].isShould

\* ------------------------------------------------------------------------
\* C21
\* ------------------------------------------------------------------------
Ended == pc \in {"threw", "returned"}

\* the messages of the exceptions of rule bodies and matchers
EngineFailures ==
  {"rule body failed", "rule body failed on added operation", "matcher failed"}

\* a declared request rule, by itself or as a member of a ruleset, whose
\* body throws on a side the operation has
BodyFails ==
  \E k \in 1..Len(requestRules), side \in {"before", "after"} :
    /\ operation[side]
    /\ \/ requestRules[k].rule = "brokenBody"
       \/ /\ requestRules[k].rule = "brokenWhenAdded"
          /\ side = "after" /\ operation.change = "added"

\* a declared request rule whose matcher throws on a body the request has on
\* a side the operation has
MatcherFails ==
  \E k \in 1..Len(requestRules), side \in {"before", "after"}, i \in 1..Len(request.bodies) :
    /\ operation[side]
    /\ requestRules[k].matches.ruleMatcher = "brokenOnXml"
    /\ request.bodies[i].contentType = "application/xml"
    /\ request.bodies[i][side] # Null

\* C21: an exception thrown by a rule body while it registers assertions, or
\* by a matcher, propagates out of the evaluation: the evaluation returns no
\* Result list, and no Result with passed = FALSE is made of the exception.
C21_EngineFailurePropagates ==
  Ended =>
    /\ (BodyFails \/ MatcherFails) <=> pc = "threw"
    /\ pc = "threw" => (results = Null /\ exception \in EngineFailures)
    /\ pc = "returned" =>
         /\ exception = Null
         /\ \A i \in 1..Len(results) : results[i].error \notin EngineFailures

\* C21 witness: the second rule's matcher threw on an xml body after the
\* first rule had run with a predicate that fails, and nothing was returned.
C21_Witness ==
  /\ pc = "threw"
  /\ rules = <<RequestType, BrokenMatcher>>
  /\ exception = "matcher failed"
  /\ results = Null

\* ------------------------------------------------------------------------
\* C22
\* ------------------------------------------------------------------------
Classified == pc = "classified"

\* two present subtrees agree in type and in the set of required names
SameMeaning(before, after) ==
  /\ before.type = after.type
  /\ \A name \in {"hello", "world"} :
       (\E i \in 1..Len(before.required) : before.required[i] = name)
         <=> (\E i \in 1..Len(after.required) : after.required[i] = name)

\* the classification the claim gives the pair
Expected(before, after) ==
  IF before = NullValue THEN "Added"
  ELSE IF after = NullValue THEN "Removed"
  ELSE IF SameMeaning(before, after) THEN "Unchanged"
  ELSE "Changed"

Mirror(classification) ==
  CASE classification = "Added" -> "Removed"
    [] classification = "Removed" -> "Added"
    [] OTHER -> classification

\* C22: a pair with at least one side present is classified as exactly one
\* of Added (before absent, after present), Removed (before present, after
\* absent), Changed (both present, unequal) and Unchanged (both present,
\* deep-equal); swapping the sides turns Added into Removed and Removed into
\* Added and leaves Changed and Unchanged as they are.
C22_ClassificationAndSwap ==
  Classified =>
    /\ results.asGiven \in {"Added", "Removed", "Changed", "Unchanged"}
    /\ results.asGiven = Expected(example.before, example.after)
    /\ results.swapped = Mirror(results.asGiven)

\* C22 witness: two subtrees that differ in the order of required and in
\* the description only are Unchanged in both directions.
C22_Witness ==
  /\ Classified
  /\ example.before = SchemaValue("object", <<"hello", "world">>, Null)
  /\ example.after = SchemaValue("object", <<"world", "hello">>, "a description")
  /\ results = [asGiven |-> "Unchanged", swapped |-> "Unchanged"]

\* ------------------------------------------------------------------------
\* C23
\* ------------------------------------------------------------------------
Returned == pc = "returned"

Configured == generator.config.ruleset

\* the configured names that can be resolved: a standard ruleset, a file
\* that loads, a ruleset the registry has
CanResolve(name) ==
  name \in {"breaking-changes", "standard.js", "./rules/local.js", "@org/hosted"}

ResolvedNames == SelectSeq(Configured, CanResolve)

UnresolvedNames == SelectSeq(Configured, LAMBDA name : ~CanResolve(name))

RunnerOfResolved ==
  /\ Len(generator.returned) = 1
  /\ Len(generator.returned[1].rulesets) = Len(ResolvedNames)
  /\ \A i \in 1..Len(ResolvedNames) :
       generator.returned[1].rulesets[i].name = ResolvedNames[i]

WarningsShown ==
  /\ Len(generator.console) = Len(UnresolvedNames)
  /\ \A i \in 1..Len(UnresolvedNames) :
       generator.console[i] = "could not resolve ruleset " \o UnresolvedNames[i]

Routed == pc \in {"preparing", "returning", "returned"} /\ generator.contacted

InCatalog(name) == name \in {"breaking-changes", "standard.js"}

EndsInJs(name) == name \in {"standard.js", "./rules/local.js", "./rules/missing.js"}

Asked(name) == \E i \in 1..Len(generator.requested) : generator.requested[i] = name

Local(name) ==
  \E i \in 1..Len(generator.localRulesets) : generator.localRulesets[i].name = name

\* each configured name is in the one class its form gives it
OneClass(name) ==
  /\ InCatalog(name) => (~Asked(name) /\ ~Local(name))
  /\ (~InCatalog(name) /\ EndsInJs(name)) =>
       /\ ~Asked(name)
       /\ \E i \in 1..Len(generator.localRulesets) :
            generator.localRulesets[i] = [name |-> name, path |-> name]
  /\ (~InCatalog(name) /\ ~EndsInJs(name)) => (Asked(name) /\ ~Local(name))

\* only configured names are asked of the registry, each once, and the
\* hosted rulesets are the answers that are not null
RegistryUse ==
  /\ \A i \in 1..Len(generator.requested) :
       /\ \E k \in 1..Len(Configured) : Configured[k] = generator.requested[i]
       /\ \A j \in 1..Len(generator.requested) :
            generator.requested[j] = generator.requested[i] => j = i
  /\ NamesOf(generator.hostedRulesets)
       = {generator.requested[i] : i \in 1..Len(generator.requested)}
           \cap {"@org/hosted"}
  /\ \A i \in 1..Len(generator.hostedRulesets) : generator.hostedRulesets[i].url # Null

\* C25: with checks enabled every configured ruleset name is routed to
\* exactly one class: a name of the standard catalog is neither fetched nor
\* local, even if it ends in .js; any other name ending in .js is a local
\* ruleset whose path is the name; every remaining name, and only those, is
\* requested from the hosted registry, and null entries of its response are
\* skipped. With checks disabled no registry is contacted and the returned
\* RuleRunner has no rulesets.
C25_NamesRoutedToOneClass ==
  /\ Routed =>
       /\ generator.config.checksEnabled
       /\ \A k \in 1..Len(Configured) : OneClass(Configured[k])
       /\ RegistryUse
  /\ ~generator.config.checksEnabled =>
       /\ ~generator.contacted
       /\ Returned => generator.returned = <<[rulesets |-> <<>>]>>

\* C25 witness: a standard name ending in .js, a local file and a name the
\* registry does not have were configured; only the last was asked of the
\* registry, and its null answer was skipped.
C25_Witness ==
  /\ Routed
  /\ Configured = <<"standard.js", "./rules/local.js", "@org/unknown">>
  /\ generator.requested = <<"@org/unknown">>
  /\ generator.localRulesets = <<[name |-> "./rules/local.js", path |-> "./rules/local.js"]>>
  /\ generator.hostedRulesets = <<>>

\* ------------------------------------------------------------------------
\* C24
\* ------------------------------------------------------------------------
\* the action of verify is over, after it found the specification
Verified == pc \in {"exited", "ended"} /\ command.pathExists

Printed(line) == \E i \in 1..Len(command.console) : command.console[i] = line

ExitedOutOfSync ==
  /\ pc = "exited"
  /\ command.exitCode = 1
  /\ Printed("OpenAPI and implementation are out of sync. Exiting 1")

NoDiffsPrinted ==
  Printed("No diffs detected. OpenAPI and implementation appear to be in sync.")

\* the exit and the message follow a given count of diffs
Follows(diffs) ==
  /\ ExitedOutOfSync <=> (diffs > 0 /\ ~command.options.exit0)
  /\ command.options.exit0 => (pc = "ended" /\ command.exitCode = 0)
  /\ NoDiffsPrinted <=> diffs = 0

\* C24: verify ends the process with exit code 1 on account of diffs if and
\* only if a diff exists (shape diffs plus undocumented paths > 0) and
\* --exit0 was not given; with --exit0 it never exits 1 because of diffs;
\* the message 'No diffs detected' is printed if and only if no diff exists.
C24_Original ==
  Verified =>
    Follows(command.diffResults.shapeDiff + command.renderingStatus.undocumentedPaths)

\* C24 as the code has it: the diffs that count are totalDiffCount plus the
\* undocumented paths, not the shape diffs of the report's Diffs line.
C24_ExitOnTotalDiffCount ==
  Verified =>
    Follows(command.diffResults.totalDiffCount + command.renderingStatus.undocumentedPaths)

\* C24 witness: a diff that is no shape diff and no undocumented path, no
\* --exit0: the process was ended with exit code 1.
C24_Witness ==
  /\ Verified
  /\ ExitedOutOfSync
  /\ command.diffResults = [totalDiffCount |-> 1, shapeDiff |-> 0]
  /\ command.renderingStatus.undocumentedPaths = 0
  /\ ~command.options.exit0

\* ------------------------------------------------------------------------
\* C26
\* ------------------------------------------------------------------------
\* the keys of the properties of a body node
KeysIn(node) == {node.fields[i].key : i \in 1..Len(node.fields)}

\* the property assertions of rule k ran on the property in the pass
PropertyRan(k, pass, node, key) == VisitsAt(k, pass, node, key) # <<>>

\* some Result of rule k was pushed for a property of the node in the pass
PropertyReported(k, pass, node) ==
  \E i \in 1..Len(trace) :
    /\ trace[i].rule = k /\ trace[i].pass = pass
    /\ trace[i].contentType = node.contentType /\ trace[i].key # Null

\* the matcher of the flattened rule accepts the body of the node in the
\* pass, or the rule has none
Accepted(flat, node, pass) ==
  /\ ExistsIn(node, Null, pass)
  /\ ~Rejected(flat, node, pass)

PropertiesFollowBody ==
  \A k \in 1..Len(requestRules) : \A node \in BodyNodes : \A pass \in Passes :
    /\ \A key \in KeysIn(node) :
         PropertyRan(k, pass, node, key)
           <=> (Accepted(requestRules[k], node, pass) /\ ExistsIn(node, key, pass))
    /\ Rejected(requestRules[k], node, pass) => ~PropertyReported(k, pass, node)

\* C26: the matcher of a rule is given request bodies only: the property
\* assertions of a request rule run for a property exactly when the matcher
\* accepted the body that holds it in the same pass, and a body the matcher
\* rejects yields no property Result.
C26_PropertiesFollowBody == Done => PropertiesFollowBody

\* C26 witness: a body with a property in the after-pass of two rules: the
\* matcher of one rejected the body and nothing ran on the property, the
\* matcher of the other accepted it and the property was reported on.
C26_Witness ==
  /\ Done
  /\ \E k \in 1..Len(requestRules) : \E other \in 1..Len(requestRules) :
     \E node \in BodyNodes : \E key \in KeysIn(node) :
       /\ ExistsIn(node, key, "after")
       /\ Rejected(requestRules[k], node, "after")
       /\ ~PropertyRan(k, "after", node, key)
       /\ ~IsUndefined(requestRules[other].matches)
       /\ Accepted(requestRules[other], node, "after")
       /\ PropertyRan(other, "after", node, key)
       /\ PropertyReported(other, "after", node)

\* ------------------------------------------------------------------------
\* C27
\* ------------------------------------------------------------------------
\* the registrations of a collector for bodies (key Null) or properties
RegistrationsFor(collector, key) ==
  IF key = Null THEN collector.body ELSE collector.property

\* the collector registered the assertion a Result came from
Registered(collector, at) ==
  \E j \in 1..Len(RegistrationsFor(collector, at.key)) :
    /\ RegistrationsFor(collector, at.key)[j].kind = at.type
    /\ RegistrationsFor(collector, at.key)[j].condition = at.condition

\* the calls of the body of rule k in a pass
CallsOfPass(k, pass) == SelectSeq(calls, LAMBDA c : c.rule = k /\ c.pass = pass)

\* every Result of a pass comes from the one collector of its rule's call in
\* that pass, whatever its content type and property
OwnCollector ==
  \A i \in 1..Len(trace) :
    /\ Len(CallsOfPass(trace[i].rule, trace[i].pass)) = 1
    /\ Registered(CallsOfPass(trace[i].rule, trace[i].pass)[1].collector, trace[i])
    /\ CallsOfPass(trace[i].rule, trace[i].pass)[1].context = ContextOf(trace[i].pass)

NodeOf(contentType) == GetBody(request.bodies, contentType)

\* a call of runAfter that was handed the classification changed got the
\* before-instance of the same content type and key, and not a null one
BeforeOfChanged(v) ==
  (v.pass = "after" /\ v.change = "changed") =>
    /\ v.before # (IF v.key = Null THEN NullRequest ELSE NullField)
    /\ ExistsIn(NodeOf(v.contentType), v.key, "before")
    /\ v.before = InstanceOf(NodeOf(v.contentType), v.key, "before")
    /\ IF v.key = Null THEN v.before.contentType = v.contentType
       ELSE v.before.key = v.key

\* C28: whenever the after-pass hands a body or a property the
\* classification changed, the before-instance passed with it is present and
\* is the before-instance of the same content type and property key: a
\* changed predicate is never called with an absent before-instance.
C28_ChangedHasBefore ==
  Done => \A i \in 1..Len(visits) : BeforeOfChanged(visits[i])

\* C28 witness: the after-pass handed a changed body and the changed second
\* property of a body their before-instances.
C28_Witness ==
  /\ Done
  /\ \E i \in 1..Len(visits) :
       /\ visits[i].pass = "after" /\ visits[i].change = "changed"
       /\ visits[i].key = Null
       /\ visits[i].before.value # visits[i].after.value
  /\ \E i \in 1..Len(visits) :
       /\ visits[i].pass = "after" /\ visits[i].change = "changed"
       /\ visits[i].key = "world"
       /\ visits[i].before.key = "world"
       /\ visits[i].before.value # visits[i].after.value

====
